---- MODULE Spec2Model ----
(***************************************************************************)
(* Model of the `responses` package: the status registry, the client-IP   *)
(* resolver, the request-info extractor and the response dispatcher.       *)
(*                                                                         *)
(* Text that the code inspects character by character (header values, the  *)
(* connection remote address) is a sequence of one-character strings.      *)
(* Text that the code only compares or copies (messages, error types,      *)
(* method, path) is a TLA+ string.                                         *)
(***************************************************************************)
EXTENDS Integers, Sequences, FiniteSets, TLC

VARIABLES
    statusConfigMap,  \* map[int]StatusConfig, the process-wide registry
    logger,           \* defaultConfig.Logger
    op,               \* the operation that ran last
    args,             \* its arguments
    w,                \* what the last dispatch did to its http.ResponseWriter
    resp,             \* the Response value the last dispatch built
    logs,             \* the records the last operation handed to the logger
    events,           \* what the last operation called, wrote and logged, in order
    ret,              \* the value the last resolver / extractor call returned
    call              \* the call the handler under study makes (its arguments)

vars == <<statusConfigMap, logger, op, args, w, resp, logs, events, ret, call>>

(***************************************************************************)
(* log/slog levels and the net/http status constant the code names.       *)
(***************************************************************************)
LevelInfo == 0
LevelWarn == 4
LevelError == 8
StatusInternalServerError == 500

MinStatusCode == 100
MaxStatusCode == 599

(***************************************************************************)
(* statusConfigMap as the package initialises it.                          *)
(***************************************************************************)
StatusConfig(level, msg, etype) ==
    [LogLevel |-> level, DefaultMessage |-> msg, ErrorType |-> etype]

BuiltinCodes ==
    {200, 201, 202, 204, 400, 401, 403, 404, 405, 409, 422, 429,
     500, 501, 502, 503, 504, 505, 506}

\* Variant: 404 is logged at Warn like the other client errors.
BuiltinConfig_NotFoundWarns(c) ==
    CASE c = 200 -> StatusConfig(LevelInfo, "Request was successful", "")
      [] c = 201 -> StatusConfig(LevelInfo, "Resource created successfully", "")
      [] c = 202 -> StatusConfig(LevelInfo, "Request accepted", "")
      [] c = 204 -> StatusConfig(LevelInfo, "Request completed successfully", "")
      [] c = 400 -> StatusConfig(LevelWarn, "The request contains invalid data", "validation_error")
      [] c = 401 -> StatusConfig(LevelWarn, "Authentication is required to access this resource", "authentication_error")
      [] c = 403 -> StatusConfig(LevelWarn, "You do not have permission to access this resource", "authorization_error")
      [] c = 404 -> StatusConfig(LevelWarn, "The requested resource was not found", "not_found")
      [] c = 405 -> StatusConfig(LevelWarn, "The requested method is not allowed for this resource", "method_not_allowed")
      [] c = 409 -> StatusConfig(LevelWarn, "The request could not be completed due to a conflict with the current state of the resource", "conflict")
      [] c = 422 -> StatusConfig(LevelWarn, "The request was well-formed but could not be processed due to semantic errors", "unprocessable_entity")
      [] c = 429 -> StatusConfig(LevelWarn, "Too many requests have been made in a given amount of time", "rate_limit_exceeded")
      [] c = 500 -> StatusConfig(LevelError, "An unexpected error occurred on the server", "internal_server_error")
      [] c = 501 -> StatusConfig(LevelError, "The requested functionality is not implemented", "not_implemented")
      [] c = 502 -> StatusConfig(LevelError, "The server received an invalid response from an upstream server", "bad_gateway")
      [] c = 503 -> StatusConfig(LevelError, "The server is currently unable to handle the request due to temporary overload or maintenance", "service_unavailable")
      [] c = 504 -> StatusConfig(LevelError, "The server did not receive a timely response from an upstream server", "gateway_timeout")
      [] c = 505 -> StatusConfig(LevelError, "The server does not support the HTTP protocol version used in the request", "http_version_not_supported")
      [] c = 506 -> StatusConfig(LevelError, "The server has an internal configuration error and cannot complete the request", "variant_also_negotiates")

\* The profile the package gives a built-in code.
BuiltinConfig(c) ==
    CASE c = 200 -> StatusConfig(LevelInfo, "Request was successful", "")
      [] c = 201 -> StatusConfig(LevelInfo, "Resource created successfully", "")
      [] c = 202 -> StatusConfig(LevelInfo, "Request accepted", "")
      [] c = 204 -> StatusConfig(LevelInfo, "Request completed successfully", "")
      [] c = 400 -> StatusConfig(LevelWarn, "The request contains invalid data", "validation_error")
      [] c = 401 -> StatusConfig(LevelWarn, "Authentication is required to access this resource", "authentication_error")
      [] c = 403 -> StatusConfig(LevelWarn, "You do not have permission to access this resource", "authorization_error")
      [] c = 404 -> StatusConfig(LevelInfo, "The requested resource was not found", "not_found")
      [] c = 405 -> StatusConfig(LevelWarn, "The requested method is not allowed for this resource", "method_not_allowed")
      [] c = 409 -> StatusConfig(LevelWarn, "The request could not be completed due to a conflict with the current state of the resource", "conflict")
      [] c = 422 -> StatusConfig(LevelWarn, "The request was well-formed but could not be processed due to semantic errors", "unprocessable_entity")
      [] c = 429 -> StatusConfig(LevelWarn, "Too many requests have been made in a given amount of time", "rate_limit_exceeded")
      [] c = 500 -> StatusConfig(LevelError, "An unexpected error occurred on the server", "internal_server_error")
      [] c = 501 -> StatusConfig(LevelError, "The requested functionality is not implemented", "not_implemented")
      [] c = 502 -> StatusConfig(LevelError, "The server received an invalid response from an upstream server", "bad_gateway")
      [] c = 503 -> StatusConfig(LevelError, "The server is currently unable to handle the request due to temporary overload or maintenance", "service_unavailable")
      [] c = 504 -> StatusConfig(LevelError, "The server did not receive a timely response from an upstream server", "gateway_timeout")
      [] c = 505 -> StatusConfig(LevelError, "The server does not support the HTTP protocol version used in the request", "http_version_not_supported")
      [] c = 506 -> StatusConfig(LevelError, "The server has an internal configuration error and cannot complete the request", "variant_also_negotiates")

InitialStatusConfigMap == [c \in BuiltinCodes |-> BuiltinConfig(c)]

\* The zero StatusConfig, which a Go map read yields for a missing key.
ZeroStatusConfig == StatusConfig(0, "", "")

\* config, exists := m[statusCode]
MapExists(m, statusCode) == statusCode \in DOMAIN m
MapConfig(m, statusCode) ==
    IF statusCode \in DOMAIN m THEN m[statusCode] ELSE ZeroStatusConfig

\* Variant: the lookup reports every code as found.
GetStatusConfig_AlwaysExists(m, statusCode) ==
    [cfg |-> MapConfig(m, statusCode), exists |-> TRUE]

\* GetStatusConfig(statusCode) (StatusConfig, bool)
GetStatusConfig(m, statusCode) ==
    [cfg |-> MapConfig(m, statusCode), exists |-> MapExists(m, statusCode)]

(***************************************************************************)
(* Log records: the logger that received it, level, message, attributes.  *)
(* Attributes are a function from attribute name to value.                 *)
(***************************************************************************)
NoAttrs == [k \in {} |-> k]

LogRecord(lg, level, msg, attrs) ==
    [logger |-> lg, level |-> level, msg |-> msg, attrs |-> attrs]

MsgStatusExists == "Status code already exists, updating configuration"
MsgInvalidCode == "Invalid HTTP status code provided, using 500"
MsgNilRequest == "JSON response called with nil request"
MsgEncodeFailed == "Failed to encode JSON response"
MsgSent == "HTTP response sent"
MsgServerError == "HTTP server error response sent"
MsgClientError == "HTTP client error response sent"

(***************************************************************************)
(* AddStatusConfig: add or overwrite a profile; an overwrite warns.        *)
(***************************************************************************)
\* Variant: a code that is already registered keeps its profile.
AddStatusConfigMap_KeepsExisting(m, statusCode, config) ==
    [c \in DOMAIN m \cup {statusCode} |->
        IF c = statusCode /\ c \notin DOMAIN m THEN config ELSE m[c]]

AddStatusConfigMap(m, statusCode, config) ==
    [c \in DOMAIN m \cup {statusCode} |->
        IF c = statusCode THEN config ELSE m[c]]

AddStatusConfigLogs(m, lg, statusCode) ==
    IF ~ MapExists(m, statusCode)
    THEN << >>
    ELSE << LogRecord(lg, LevelWarn, MsgStatusExists,
                      [k \in {"statusCode"} |-> statusCode]) >>

(***************************************************************************)
(* getMessageForStatus                                                     *)
(***************************************************************************)
\* Variant: the registry default wins over the provided message.
getMessageForStatus_RegistryFirst(m, statusCode, providedMessage) ==
    IF MapExists(m, statusCode)
    THEN MapConfig(m, statusCode).DefaultMessage
    ELSE IF providedMessage # "" THEN providedMessage
    ELSE "Response completed"

\* Variant: the default is read from the built-in table, not the live map.
getMessageForStatus_BuiltinOnly(m, statusCode, providedMessage) ==
    IF providedMessage # ""
    THEN providedMessage
    ELSE IF statusCode \in DOMAIN InitialStatusConfigMap
    THEN InitialStatusConfigMap[statusCode].DefaultMessage
    ELSE IF MapExists(m, statusCode)
    THEN MapConfig(m, statusCode).DefaultMessage
    ELSE "Response completed"

\* Variant: the server class is closed at 599, as the 4xx class is at 499.
getMessageForStatus_ClosedServerClass(m, statusCode, providedMessage) ==
    IF providedMessage # ""
    THEN providedMessage
    ELSE IF MapExists(m, statusCode)
    THEN MapConfig(m, statusCode).DefaultMessage
    ELSE IF statusCode >= 200 /\ statusCode < 300
    THEN "Request completed successfully"
    ELSE IF statusCode >= 300 /\ statusCode < 400
    THEN "Request requires further action"
    ELSE IF statusCode >= 400 /\ statusCode < 500
    THEN "Client error occurred"
    ELSE IF statusCode >= 500 /\ statusCode < 600
    THEN "Server error occurred"
    ELSE "Response completed"

getMessageForStatus(m, statusCode, providedMessage) ==
    IF providedMessage # ""
    THEN providedMessage
    ELSE IF MapExists(m, statusCode)
    THEN MapConfig(m, statusCode).DefaultMessage
    ELSE IF statusCode >= 200 /\ statusCode < 300
    THEN "Request completed successfully"
    ELSE IF statusCode >= 300 /\ statusCode < 400
    THEN "Request requires further action"
    ELSE IF statusCode >= 400 /\ statusCode < 500
    THEN "Client error occurred"
    ELSE IF statusCode >= 500
    THEN "Server error occurred"
    ELSE "Response completed"

(***************************************************************************)
(* validateStatusCode: the returned code, and the warning it logs.         *)
(***************************************************************************)
\* Variant: the upper bound tested with >=, so 599 is rejected too.
validateStatusCode_UpperOffByOne(statusCode) ==
    IF statusCode < MinStatusCode \/ statusCode >= MaxStatusCode
    THEN StatusInternalServerError
    ELSE statusCode

\* Variant: the lower bound is not tested.
validateStatusCode_NoLowerBound(statusCode) ==
    IF statusCode > MaxStatusCode
    THEN StatusInternalServerError
    ELSE statusCode

validateStatusCode(statusCode) ==
    IF statusCode < MinStatusCode \/ statusCode > MaxStatusCode
    THEN StatusInternalServerError
    ELSE statusCode

validateStatusCodeLogs(lg, statusCode) ==
    IF statusCode < MinStatusCode \/ statusCode > MaxStatusCode
    THEN << LogRecord(lg, LevelWarn, MsgInvalidCode,
                      [k \in {"provided_code"} |-> statusCode]) >>
    ELSE << >>

(***************************************************************************)
(* Text helpers: strings.Split on one separator, strings.TrimSpace.        *)
(***************************************************************************)
Digits == {"0", "1", "2", "3", "4", "5", "6", "7", "8", "9"}
HexDigits == Digits \cup {"a", "b", "c", "d", "e", "f", "A", "B", "C", "D", "E", "F"}

\* The runes unicode.IsSpace accepts, which strings.TrimSpace removes.  A text
\* is a sequence of runes, one string per rune.  The Latin-1 ones are the
\* characters themselves: tab, line feed, vertical tab (U+000B), form feed,
\* carriage return, space, next line (U+0085), no-break space (U+00A0); the
\* runes above U+00FF are written by their code point.
VerticalTab == ""
NextLine == ""
NoBreakSpace == " "
Spaces ==
    {"\t", "\n", VerticalTab, "\f", "\r", " ", NextLine, NoBreakSpace,
     "U+1680", "U+2000", "U+2001", "U+2002", "U+2003", "U+2004", "U+2005",
     "U+2006", "U+2007", "U+2008", "U+2009", "U+200A", "U+2028", "U+2029",
     "U+202F", "U+205F", "U+3000"}

Contains(s, c) == \E i \in 1..Len(s) : s[i] = c
IndexByte(s, c) == CHOOSE i \in 1..Len(s) : s[i] = c /\ \A j \in 1..(i - 1) : s[j] # c
LastIndexByte(s, c) == CHOOSE i \in 1..Len(s) : s[i] = c /\ \A j \in (i + 1)..Len(s) : s[j] # c

RECURSIVE Split(_, _)
Split(s, sep) ==
    IF Contains(s, sep)
    THEN LET i == IndexByte(s, sep)
         IN  << SubSeq(s, 1, i - 1) >> \o Split(SubSeq(s, i + 1, Len(s)), sep)
    ELSE << s >>

RECURSIVE TrimLeft(_)
TrimLeft(s) == IF s # << >> /\ Head(s) \in Spaces THEN TrimLeft(Tail(s)) ELSE s

RECURSIVE TrimRight(_)
TrimRight(s) ==
    IF s # << >> /\ s[Len(s)] \in Spaces
    THEN TrimRight(SubSeq(s, 1, Len(s) - 1))
    ELSE s

TrimSpace(s) == TrimRight(TrimLeft(s))

(***************************************************************************)
(* net.ParseIP(s) != nil, as netip.ParseAddr decides it (no zone allowed). *)
(***************************************************************************)
RECURSIVE DecimalValue(_)
DecimalValue(f) ==
    IF f = << >> THEN 0
    ELSE 10 * DecimalValue(SubSeq(f, 1, Len(f) - 1))
         + (CHOOSE d \in 0..9 : ToString(d) = f[Len(f)])

\* One dotted field: digits only, at least one, no leading zero, at most 255.
IPv4FieldOK(f) ==
    /\ Len(f) >= 1
    /\ \A i \in 1..Len(f) : f[i] \in Digits
    /\ ~ (Len(f) > 1 /\ f[1] = "0")
    /\ DecimalValue(f) <= 255

\* parseIPv4Fields: exactly four valid fields.
IPv4FieldsOK(s) ==
    LET fields == Split(s, ".")
    IN  /\ Len(fields) = 4
        /\ \A i \in 1..4 : IPv4FieldOK(fields[i])

RECURSIVE HexRun(_)
HexRun(s) == IF s # << >> /\ Head(s) \in HexDigits THEN 1 + HexRun(Tail(s)) ELSE 0

\* After the group loop: the whole string used, and the ellipsis accounts
\* for the missing groups (and for at least one).
IPv6Finish(s, i, ellipsis) ==
    /\ Len(s) = 0
    /\ IF i < 16 THEN ellipsis >= 0 ELSE ellipsis < 0

\* The group loop of parseIPv6: s is the unparsed rest, i the bytes filled,
\* ellipsis the position of "::" (-1 when none was seen).
RECURSIVE IPv6Loop(_, _, _)
IPv6Loop(s, i, ellipsis) ==
    IF i >= 16 THEN IPv6Finish(s, i, ellipsis)
    ELSE
    LET off == HexRun(s) IN
    IF off > 4 \/ off = 0 THEN FALSE
    ELSE IF off < Len(s) /\ s[off + 1] = "."
    THEN /\ ~ (ellipsis < 0 /\ i # 12)
         /\ i + 4 <= 16
         /\ IPv4FieldsOK(s)
         /\ IPv6Finish(<< >>, i + 4, ellipsis)
    ELSE
    LET rest == SubSeq(s, off + 1, Len(s)) IN
    IF rest = << >> THEN IPv6Finish(rest, i + 2, ellipsis)
    ELSE IF rest[1] # ":" \/ Len(rest) = 1 THEN FALSE
    ELSE IF rest[2] = ":"
    THEN /\ ellipsis < 0
         /\ IF Len(rest) = 2
            THEN IPv6Finish(<< >>, i + 2, i + 2)
            ELSE IPv6Loop(SubSeq(rest, 3, Len(rest)), i + 2, i + 2)
    ELSE IPv6Loop(Tail(rest), i + 2, ellipsis)

parseIPv6(s) ==
    IF Contains(s, "%") THEN FALSE
    ELSE IF Len(s) >= 2 /\ s[1] = ":" /\ s[2] = ":"
    THEN IF Len(s) = 2 THEN TRUE ELSE IPv6Loop(SubSeq(s, 3, Len(s)), 0, 0)
    ELSE IPv6Loop(s, 0, -1)

\* The first of '.', ':' and '%' in s selects the parser.
ParseIP(s) ==
    LET marks == {i \in 1..Len(s) : s[i] \in {".", ":", "%"}}
    IN  IF marks = {} THEN FALSE
        ELSE LET first == CHOOSE i \in marks : \A j \in marks : i <= j
             IN  CASE s[first] = "." -> IPv4FieldsOK(s)
                   [] s[first] = ":" -> parseIPv6(s)
                   [] OTHER -> FALSE

(***************************************************************************)
(* net.SplitHostPort: [err, host]; the port is not used by the code.      *)
(***************************************************************************)
HostPortError == [err |-> TRUE, host |-> << >>]

SplitHostPort(hostport) ==
    IF ~ Contains(hostport, ":") THEN HostPortError
    ELSE
    LET i == LastIndexByte(hostport, ":") IN
    IF hostport[1] = "["
    THEN IF ~ Contains(hostport, "]") THEN HostPortError
         ELSE LET end == IndexByte(hostport, "]") IN
              IF end + 1 # i THEN HostPortError
              ELSE IF Contains(SubSeq(hostport, 2, Len(hostport)), "[")
                      \/ Contains(SubSeq(hostport, end + 1, Len(hostport)), "]")
              THEN HostPortError
              ELSE [err |-> FALSE, host |-> SubSeq(hostport, 2, end - 1)]
    ELSE LET host == SubSeq(hostport, 1, i - 1) IN
         IF Contains(host, ":") THEN HostPortError
         ELSE IF Contains(hostport, "[") \/ Contains(hostport, "]")
         THEN HostPortError
         ELSE [err |-> FALSE, host |-> host]

(***************************************************************************)
(* Requests.  A header is the list of its values; Header.Get returns the   *)
(* first value, or "" when the header is absent.                           *)
(***************************************************************************)
HeaderGet(values) == IF Len(values) = 0 THEN << >> ELSE values[1]

\* The first token of ips that, trimmed, parses as an IP; << >> with
\* found = FALSE when there is none.
\* Variant: only the first token is looked at.
FirstValidIP_FirstTokenOnly(ips) ==
    LET ip == TrimSpace(Head(ips))
    IN  IF ParseIP(ip) THEN [found |-> TRUE, ip |-> ip]
        ELSE [found |-> FALSE, ip |-> << >>]

RECURSIVE FirstValidIP(_)
FirstValidIP(ips) ==
    IF ips = << >> THEN [found |-> FALSE, ip |-> << >>]
    ELSE LET ip == TrimSpace(Head(ips))
         IN  IF ParseIP(ip) THEN [found |-> TRUE, ip |-> ip]
             ELSE FirstValidIP(Tail(ips))

\* Variant: a present X-Forwarded-For without a valid token ends the
\* header lookup; X-Real-IP is consulted only when it is absent.
getClientIP_ForwardedEndsLookup(r) ==
    LET forwarded == HeaderGet(r.XForwardedFor)
        fromForwarded == IF forwarded # << >>
                         THEN FirstValidIP(Split(forwarded, ","))
                         ELSE [found |-> FALSE, ip |-> << >>]
        xRealIP == HeaderGet(r.XRealIP)
        realIP == TrimSpace(xRealIP)
        hp == SplitHostPort(r.RemoteAddr)
    IN  IF fromForwarded.found THEN fromForwarded.ip
        ELSE IF forwarded = << >> /\ xRealIP # << >> /\ ParseIP(realIP) THEN realIP
        ELSE IF ~ hp.err /\ ParseIP(hp.host) THEN hp.host
        ELSE r.RemoteAddr

\* Variant: the remote address is returned with its port.
getClientIP_KeepsPort(r) ==
    LET forwarded == HeaderGet(r.XForwardedFor)
        fromForwarded == IF forwarded # << >>
                         THEN FirstValidIP(Split(forwarded, ","))
                         ELSE [found |-> FALSE, ip |-> << >>]
        xRealIP == HeaderGet(r.XRealIP)
        realIP == TrimSpace(xRealIP)
    IN  IF fromForwarded.found THEN fromForwarded.ip
        ELSE IF xRealIP # << >> /\ ParseIP(realIP) THEN realIP
        ELSE r.RemoteAddr

\* Variant: the last fallback returns the empty string.
getClientIP_EmptyFallback(r) ==
    LET forwarded == HeaderGet(r.XForwardedFor)
        fromForwarded == IF forwarded # << >>
                         THEN FirstValidIP(Split(forwarded, ","))
                         ELSE [found |-> FALSE, ip |-> << >>]
        xRealIP == HeaderGet(r.XRealIP)
        realIP == TrimSpace(xRealIP)
        hp == SplitHostPort(r.RemoteAddr)
    IN  IF fromForwarded.found THEN fromForwarded.ip
        ELSE IF xRealIP # << >> /\ ParseIP(realIP) THEN realIP
        ELSE IF ~ hp.err /\ ParseIP(hp.host) THEN hp.host
        ELSE << >>

getClientIP(r) ==
    LET forwarded == HeaderGet(r.XForwardedFor)
        fromForwarded == IF forwarded # << >>
                         THEN FirstValidIP(Split(forwarded, ","))
                         ELSE [found |-> FALSE, ip |-> << >>]
        xRealIP == HeaderGet(r.XRealIP)
        realIP == TrimSpace(xRealIP)
        hp == SplitHostPort(r.RemoteAddr)
    IN  IF fromForwarded.found THEN fromForwarded.ip
        ELSE IF xRealIP # << >> /\ ParseIP(realIP) THEN realIP
        ELSE IF ~ hp.err /\ ParseIP(hp.host) THEN hp.host
        ELSE r.RemoteAddr

\* r.UserAgent(): the first value of the User-Agent header, "" when the
\* request has none.
UserAgent(r) ==
    IF Len(r.UserAgentHeader) = 0 THEN "" ELSE r.UserAgentHeader[1]

\* Variant: the path is returned with the query string.
extractRequestInfo_PathWithQuery(r) ==
    [Method |-> r.Method, Path |-> r.URL.Path \o "?" \o r.URL.RawQuery,
     UserAgent |-> UserAgent(r), RemoteIP |-> getClientIP(r)]

\* extractRequestInfo(r) RequestInfo
extractRequestInfo(r) ==
    [Method |-> r.Method, Path |-> r.URL.Path,
     UserAgent |-> UserAgent(r), RemoteIP |-> getClientIP(r)]

\* The zero RequestInfo, which dispatch logs for a nil request.
ZeroRequestInfo ==
    [Method |-> "", Path |-> "", UserAgent |-> "", RemoteIP |-> << >>]

\* The placeholder JSONResponse logs for a nil request: every field "UNKNOWN".
Unknown == "UNKNOWN"
UnknownIP == << "U", "N", "K", "N", "O", "W", "N" >>
UnknownRequestInfo ==
    [Method |-> Unknown, Path |-> Unknown, UserAgent |-> Unknown,
     RemoteIP |-> UnknownIP]

(***************************************************************************)
(* Values the dispatcher carries.  A nil map / pointer / interface keeps   *)
(* the shape of its non-nil form and is told apart by its isNil field.     *)
(***************************************************************************)
NilDetails == [isNil |-> TRUE, kv |-> {}]
EmptyDetails == [isNil |-> FALSE, kv |-> {}]
FieldDetails == [isNil |-> FALSE, kv |-> {<<"field", "email">>}]

NilData == [isNil |-> TRUE, kind |-> "nil"]
MapData == [isNil |-> FALSE, kind |-> "map"]     \* map[string]string{"foo": "bar"}
ChanData == [isNil |-> FALSE, kind |-> "chan"]   \* a value encoding/json rejects

NilErrorInfo == [isNil |-> TRUE, Type |-> "", Details |-> NilDetails]

NilRequest ==
    [isNil |-> TRUE, Method |-> "", URL |-> [Path |-> "", RawQuery |-> ""],
     UserAgentHeader |-> << >>, XForwardedFor |-> << >>, XRealIP |-> << >>,
     RemoteAddr |-> << >>]

NoResponse ==
    [Status |-> "", StatusCode |-> 0, Message |-> "", Data |-> NilData,
     Error |-> NilErrorInfo]

\* An http.ResponseWriter: the header map, the WriteHeader calls and the
\* bodies it accepted; writeErr tells whether its Write returns an error
\* (a closed connection, or a status that allows no body).
NoHeader == [k \in {} |-> k]
NewWriter ==
    [header |-> NoHeader, status |-> << >>, body |-> << >>, writeErr |-> FALSE]
FailingWriter ==
    [header |-> NoHeader, status |-> << >>, body |-> << >>, writeErr |-> TRUE]

\* Header().Set(key, value)
HeaderSet(h, key, value) ==
    [k \in DOMAIN h \cup {key} |-> IF k = key THEN value ELSE h[k]]

(***************************************************************************)
(* encoding/json on Response and ErrorInfo: which values marshal, and the  *)
(* object they marshal to (a function from the keys present to values).    *)
(***************************************************************************)
Marshals(data) == data.kind # "chan"

EncodeErrorInfo(e) ==
    LET keys == {"type"} \cup (IF Cardinality(e.Details.kv) = 0 THEN {} ELSE {"details"})
    IN  [k \in keys |-> IF k = "type" THEN e.Type ELSE e.Details.kv]

\* Variant: the data is left out of an envelope that has an error object.
EncodeResponse_DataOnlyOnSuccess(rsp) ==
    LET keys == {"status", "statusCode", "message"}
                \cup (IF rsp.Data.isNil \/ ~ rsp.Error.isNil THEN {} ELSE {"data"})
                \cup (IF rsp.Error.isNil THEN {} ELSE {"error"})
    IN  [k \in keys |->
            CASE k = "status" -> rsp.Status
              [] k = "statusCode" -> rsp.StatusCode
              [] k = "message" -> rsp.Message
              [] k = "data" -> rsp.Data.kind
              [] k = "error" -> EncodeErrorInfo(rsp.Error)]

\* Variant: no omitempty, a field without a value is written as null.
EncodeResponse_NullForAbsent(rsp) ==
    [k \in {"status", "statusCode", "message", "data", "error"} |->
        CASE k = "status" -> rsp.Status
          [] k = "statusCode" -> rsp.StatusCode
          [] k = "message" -> rsp.Message
          [] k = "data" -> IF rsp.Data.isNil THEN "null" ELSE rsp.Data.kind
          [] k = "error" -> IF rsp.Error.isNil THEN [null |-> TRUE]
                            ELSE EncodeErrorInfo(rsp.Error)]

EncodeResponse(rsp) ==
    LET keys == {"status", "statusCode", "message"}
                \cup (IF rsp.Data.isNil THEN {} ELSE {"data"})
                \cup (IF rsp.Error.isNil THEN {} ELSE {"error"})
    IN  [k \in keys |->
            CASE k = "status" -> rsp.Status
              [] k = "statusCode" -> rsp.StatusCode
              [] k = "message" -> rsp.Message
              [] k = "data" -> rsp.Data.kind
              [] k = "error" -> EncodeErrorInfo(rsp.Error)]

\* Decoding an object into a Response: a key that is absent leaves the
\* field at its zero value (nil interface, nil pointer, nil map).
decodeErrorInfo(e) ==
    [isNil |-> FALSE,
     Type |-> e["type"],
     Details |-> IF "details" \in DOMAIN e
                 THEN [isNil |-> FALSE, kv |-> e["details"]]
                 ELSE NilDetails]

decodeResponse(obj) ==
    [Status |-> obj["status"],
     StatusCode |-> obj["statusCode"],
     Message |-> obj["message"],
     Data |-> IF "data" \in DOMAIN obj
              THEN [isNil |-> FALSE, kind |-> obj["data"]]
              ELSE NilData,
     Error |-> IF "error" \in DOMAIN obj
               THEN decodeErrorInfo(obj["error"])
               ELSE NilErrorInfo]

(***************************************************************************)
(* HTTPResponse, part by part.                                             *)
(***************************************************************************)
\* status := "success"; if statusCode >= 400 { status = "error" }
ResponseStatus_StrictlyAbove(statusCode) ==
    IF statusCode > 400 THEN "error" ELSE "success"

ResponseStatus(statusCode) == IF statusCode >= 400 THEN "error" ELSE "success"

\* Variant: the profile's tag is used even when it is empty.
ErrorType_NoFallback(m, statusCode) ==
    IF MapExists(m, statusCode)
    THEN MapConfig(m, statusCode).ErrorType
    ELSE "unknown_error"

\* errorType: the profile's tag when there is one, else "unknown_error".
ErrorType(m, statusCode) ==
    IF MapExists(m, statusCode) /\ MapConfig(m, statusCode).ErrorType # ""
    THEN MapConfig(m, statusCode).ErrorType
    ELSE "unknown_error"

\* Variant: the error object is built only when details were passed.
BuildErrorInfo_OnlyWithDetails(m, statusCode, details) ==
    IF statusCode >= 400 /\ ~ details.isNil
    THEN [isNil |-> FALSE, Type |-> ErrorType(m, statusCode), Details |-> details]
    ELSE NilErrorInfo

\* var errorInfo *ErrorInfo, set only on the statusCode >= 400 branch.
BuildErrorInfo(m, statusCode, details) ==
    IF statusCode >= 400
    THEN [isNil |-> FALSE, Type |-> ErrorType(m, statusCode), Details |-> details]
    ELSE NilErrorInfo

\* Variant: the level follows the class of the code, the registry ignored.
ResponseLogLevel_ClassOnly(m, statusCode) ==
    IF statusCode >= 500 THEN LevelError
    ELSE IF statusCode >= 400 THEN LevelWarn
    ELSE LevelInfo

\* Determine log level.
ResponseLogLevel(m, statusCode) ==
    IF MapExists(m, statusCode) THEN MapConfig(m, statusCode).LogLevel
    ELSE IF statusCode >= 500 THEN LevelError
    ELSE IF statusCode >= 400 THEN LevelWarn
    ELSE LevelInfo

ResponseLogMessage(statusCode) ==
    IF statusCode >= 500 THEN MsgServerError
    ELSE IF statusCode >= 400 THEN MsgClientError
    ELSE MsgSent

ResponseLogAttrs(rsp, reqInfo) ==
    LET keys == {"statusCode", "status", "message", "method", "path",
                 "user_agent", "remote_ip"}
                \cup (IF rsp.Error.isNil THEN {} ELSE {"error_type", "error_details"})
    IN  [k \in keys |->
            CASE k = "statusCode" -> rsp.StatusCode
              [] k = "status" -> rsp.Status
              [] k = "message" -> rsp.Message
              [] k = "method" -> reqInfo.Method
              [] k = "path" -> reqInfo.Path
              [] k = "user_agent" -> reqInfo.UserAgent
              [] k = "remote_ip" -> reqInfo.RemoteIP
              [] k = "error_type" -> rsp.Error.Type
              [] k = "error_details" -> rsp.Error.Details]

\* Variant: the caching directive is left out.
ResponseHeaders_NoCacheControl(h) ==
    HeaderSet(HeaderSet(h,
        "Content-Type", "application/json"),
        "X-Content-Type-Options", "nosniff")

\* The three headers, set in source order on a fresh header map.
ResponseHeaders(h) ==
    HeaderSet(HeaderSet(HeaderSet(h,
        "Content-Type", "application/json"),
        "X-Content-Type-Options", "nosniff"),
        "Cache-Control", "no-cache, no-store, must-revalidate")

Ev(kind, what) == [kind |-> kind, what |-> what]

RECURSIVE LogEvents(_)
LogEvents(records) ==
    IF records = << >> THEN << >>
    ELSE << Ev("log", Head(records).msg) >> \o LogEvents(Tail(records))

\* Variant: the message is resolved for the code as given, not as validated.
HTTPResponse_MessageForGivenCode(m, lg, wr, r, statusCode0, message0, data, details) ==
    LET statusCode == validateStatusCode(statusCode0)
        invalidLogs == validateStatusCodeLogs(lg, statusCode0)
        reqInfo == IF ~ r.isNil THEN extractRequestInfo(r) ELSE ZeroRequestInfo
        nilLogs == IF ~ r.isNil THEN << >>
                   ELSE << LogRecord(lg, LevelWarn, MsgNilRequest, NoAttrs) >>
        message == getMessageForStatus(m, statusCode0, message0)
        rsp == [Status |-> ResponseStatus(statusCode),
                StatusCode |-> statusCode,
                Message |-> message,
                Data |-> data,
                Error |-> BuildErrorInfo(m, statusCode, details)]
        logLevel == ResponseLogLevel(m, statusCode)
        logAttrs == ResponseLogAttrs(rsp, reqInfo)
        \* Encode marshals first and writes only what marshalled.
        encoded == Marshals(data) /\ ~ wr.writeErr
        lastLog ==
            IF encoded
            THEN LogRecord(lg, logLevel, ResponseLogMessage(statusCode), logAttrs)
            ELSE LogRecord(lg, LevelError, MsgEncodeFailed,
                           [k \in DOMAIN logAttrs \cup {"encoding_error"} |->
                               IF k = "encoding_error"
                               THEN IF Marshals(data) THEN "write error"
                                    ELSE "json: unsupported type"
                               ELSE logAttrs[k]])
    IN  [w |-> [header |-> ResponseHeaders(wr.header),
                status |-> wr.status \o << statusCode >>,
                body |-> IF encoded THEN wr.body \o << EncodeResponse(rsp) >>
                         ELSE wr.body,
                writeErr |-> wr.writeErr],
         resp |-> rsp,
         logs |-> invalidLogs \o nilLogs \o << lastLog >>,
         events |-> << Ev("call", "validateStatusCode") >> \o LogEvents(invalidLogs)
                    \o (IF r.isNil THEN LogEvents(nilLogs)
                        ELSE << Ev("call", "extractRequestInfo") >>)
                    \o << Ev("call", "getMessageForStatus"),
                          Ev("header", "Content-Type"),
                          Ev("header", "X-Content-Type-Options"),
                          Ev("header", "Cache-Control"),
                          Ev("status", "WriteHeader") >>
                    \o (IF Marshals(data) THEN << Ev("body", "Write") >> ELSE << >>)
                    \o LogEvents(<< lastLog >>)]

\* Variant: the encoding failure is logged but the call does not return,
\* so the response record is logged as well.
HTTPResponse_NoReturnOnEncodeError(m, lg, wr, r, statusCode0, message0, data, details) ==
    LET statusCode == validateStatusCode(statusCode0)
        invalidLogs == validateStatusCodeLogs(lg, statusCode0)
        reqInfo == IF ~ r.isNil THEN extractRequestInfo(r) ELSE ZeroRequestInfo
        nilLogs == IF ~ r.isNil THEN << >>
                   ELSE << LogRecord(lg, LevelWarn, MsgNilRequest, NoAttrs) >>
        message == getMessageForStatus(m, statusCode, message0)
        rsp == [Status |-> ResponseStatus(statusCode),
                StatusCode |-> statusCode,
                Message |-> message,
                Data |-> data,
                Error |-> BuildErrorInfo(m, statusCode, details)]
        logLevel == ResponseLogLevel(m, statusCode)
        logAttrs == ResponseLogAttrs(rsp, reqInfo)
        \* Encode marshals first and writes only what marshalled.
        encoded == Marshals(data) /\ ~ wr.writeErr
        sentLog ==
            LogRecord(lg, logLevel, ResponseLogMessage(statusCode), logAttrs)
        lastLog ==
            IF encoded
            THEN sentLog
            ELSE LogRecord(lg, LevelError, MsgEncodeFailed,
                           [k \in DOMAIN logAttrs \cup {"encoding_error"} |->
                               IF k = "encoding_error"
                               THEN IF Marshals(data) THEN "write error"
                                    ELSE "json: unsupported type"
                               ELSE logAttrs[k]])
    IN  [w |-> [header |-> ResponseHeaders(wr.header),
                status |-> wr.status \o << statusCode >>,
                body |-> IF encoded THEN wr.body \o << EncodeResponse(rsp) >>
                         ELSE wr.body,
                writeErr |-> wr.writeErr],
         resp |-> rsp,
         logs |-> invalidLogs \o nilLogs \o (IF encoded THEN << lastLog >> ELSE << lastLog, sentLog >>),
         events |-> << Ev("call", "validateStatusCode") >> \o LogEvents(invalidLogs)
                    \o (IF r.isNil THEN LogEvents(nilLogs)
                        ELSE << Ev("call", "extractRequestInfo") >>)
                    \o << Ev("call", "getMessageForStatus"),
                          Ev("header", "Content-Type"),
                          Ev("header", "X-Content-Type-Options"),
                          Ev("header", "Cache-Control"),
                          Ev("status", "WriteHeader") >>
                    \o (IF Marshals(data) THEN << Ev("body", "Write") >> ELSE << >>)
                    \o LogEvents((IF encoded THEN << lastLog >> ELSE << lastLog, sentLog >>))]

\* The whole call: what it wrote to w, the Response it built, what it logged.
HTTPResponse(m, lg, wr, r, statusCode0, message0, data, details) ==
    LET statusCode == validateStatusCode(statusCode0)
        invalidLogs == validateStatusCodeLogs(lg, statusCode0)
        reqInfo == IF ~ r.isNil THEN extractRequestInfo(r) ELSE ZeroRequestInfo
        nilLogs == IF ~ r.isNil THEN << >>
                   ELSE << LogRecord(lg, LevelWarn, MsgNilRequest, NoAttrs) >>
        message == getMessageForStatus(m, statusCode, message0)
        rsp == [Status |-> ResponseStatus(statusCode),
                StatusCode |-> statusCode,
                Message |-> message,
                Data |-> data,
                Error |-> BuildErrorInfo(m, statusCode, details)]
        logLevel == ResponseLogLevel(m, statusCode)
        logAttrs == ResponseLogAttrs(rsp, reqInfo)
        \* Encode marshals first and writes only what marshalled.
        encoded == Marshals(data) /\ ~ wr.writeErr
        lastLog ==
            IF encoded
            THEN LogRecord(lg, logLevel, ResponseLogMessage(statusCode), logAttrs)
            ELSE LogRecord(lg, LevelError, MsgEncodeFailed,
                           [k \in DOMAIN logAttrs \cup {"encoding_error"} |->
                               IF k = "encoding_error"
                               THEN IF Marshals(data) THEN "write error"
                                    ELSE "json: unsupported type"
                               ELSE logAttrs[k]])
    IN  [w |-> [header |-> ResponseHeaders(wr.header),
                status |-> wr.status \o << statusCode >>,
                body |-> IF encoded THEN wr.body \o << EncodeResponse(rsp) >>
                         ELSE wr.body,
                writeErr |-> wr.writeErr],
         resp |-> rsp,
         logs |-> invalidLogs \o nilLogs \o << lastLog >>,
         events |-> << Ev("call", "validateStatusCode") >> \o LogEvents(invalidLogs)
                    \o (IF r.isNil THEN LogEvents(nilLogs)
                        ELSE << Ev("call", "extractRequestInfo") >>)
                    \o << Ev("call", "getMessageForStatus"),
                          Ev("header", "Content-Type"),
                          Ev("header", "X-Content-Type-Options"),
                          Ev("header", "Cache-Control"),
                          Ev("status", "WriteHeader") >>
                    \o (IF Marshals(data) THEN << Ev("body", "Write") >> ELSE << >>)
                    \o LogEvents(<< lastLog >>)]

\* The earlier dispatcher, still exported.  It resolves the message before it
\* looks at the request, logs "UNKNOWN" fields for a nil request, and logs a
\* record "HTTP response" after the headers and before the status line.  That
\* record's level is written config.LogLevel where no config is in scope, so
\* the level is not determined by the source: the logs are given for each
\* level that config.LogLevel can stand for.
MsgResponse == "HTTP response"
Levels == {LevelInfo, LevelWarn, LevelError}

JSONResponse(m, lg, wr, r, statusCode0, message0, data, details) ==
    LET statusCode == validateStatusCode(statusCode0)
        invalidLogs == validateStatusCodeLogs(lg, statusCode0)
        message == getMessageForStatus(m, statusCode, message0)
        reqInfo == IF ~ r.isNil THEN extractRequestInfo(r) ELSE UnknownRequestInfo
        nilLogs == IF ~ r.isNil THEN << >>
                   ELSE << LogRecord(lg, LevelWarn, MsgNilRequest, NoAttrs) >>
        rsp == [Status |-> ResponseStatus(statusCode),
                StatusCode |-> statusCode,
                Message |-> message,
                Data |-> data,
                Error |-> BuildErrorInfo(m, statusCode, details)]
        earlyLog(configLogLevel) ==
            LogRecord(lg, configLogLevel, MsgResponse,
                      [k \in {"statusCode", "message"} |->
                          IF k = "statusCode" THEN statusCode ELSE message])
        logAttrs == ResponseLogAttrs(rsp, reqInfo)
        \* Encode marshals first and writes only what marshalled.
        encoded == Marshals(data) /\ ~ wr.writeErr
        logLevel == ResponseLogLevel(m, statusCode)
        lastLog ==
            IF encoded
            THEN LogRecord(lg, logLevel, ResponseLogMessage(statusCode), logAttrs)
            ELSE LogRecord(lg, LevelError, MsgEncodeFailed,
                           [k \in DOMAIN logAttrs \cup {"encoding_error"} |->
                               IF k = "encoding_error"
                               THEN IF Marshals(data) THEN "write error"
                                    ELSE "json: unsupported type"
                               ELSE logAttrs[k]])
    IN  [w |-> [header |-> ResponseHeaders(wr.header),
                status |-> wr.status \o << statusCode >>,
                body |-> IF encoded THEN wr.body \o << EncodeResponse(rsp) >>
                         ELSE wr.body,
                writeErr |-> wr.writeErr],
         resp |-> rsp,
         logs |-> LET before == invalidLogs \o nilLogs
                      last == lastLog
                  IN  [configLogLevel \in Levels |->
                          before \o << earlyLog(configLogLevel), last >>],
         events |-> << Ev("call", "validateStatusCode") >> \o LogEvents(invalidLogs)
                    \o << Ev("call", "getMessageForStatus") >>
                    \o (IF r.isNil THEN LogEvents(nilLogs)
                        ELSE << Ev("call", "extractRequestInfo") >>)
                    \o << Ev("header", "Content-Type"),
                          Ev("header", "X-Content-Type-Options"),
                          Ev("header", "Cache-Control") >>
                    \o << Ev("log", MsgResponse), Ev("status", "WriteHeader") >>
                    \o (IF Marshals(data) THEN << Ev("body", "Write") >> ELSE << >>)
                    \o LogEvents(<< lastLog >>)]

(***************************************************************************)
(* Inputs.                                                                 *)
(***************************************************************************)
\* Codes a caller passes to dispatch: below, at and above each boundary the
\* code tests, built-in and unregistered ones.
StatusCodes == {-1, 0, 99, 100, 200, 399, 400, 418, 500, 599, 600}

Messages == {"", "Success!"}
DataValues == {NilData, MapData, ChanData}
DetailsValues == {NilDetails, EmptyDetails, FieldDetails}
Writers == {NewWriter, FailingWriter}

\* Codes and profiles a caller passes to AddStatusConfig: a built-in code,
\* an unregistered one and one outside the valid range.
AddCodes == {200, 418, 600}
AddConfigs ==
    {StatusConfig(LevelInfo, "", ""),
     StatusConfig(LevelError, "Custom default", "custom_error")}

DefaultLogger == "default"
NilLogger == "nil"
Loggers == {NilLogger, "custom", "other"}

\* Address literals.
IP6666 == << "6", ".", "6", ".", "6", ".", "6" >>
IP7777 == << "7", ".", "7", ".", "7", ".", "7" >>
IP9999 == << "9", ".", "9", ".", "9", ".", "9" >>
IPv6Loopback == << ":", ":", "1" >>
Addr6666Port == << "6", ".", "6", ".", "6", ".", "6", ":", "1", "2", "3", "4" >>
AddrIPv6Port == << "[", ":", ":", "1", "]", ":", "8", "0" >>

\* Tokens of an X-Forwarded-For list.
TokIP8 == << "8", ".", "8", ".", "8", ".", "8" >>
TokIP9Spaced == << " ", "9", ".", "9", ".", "9", ".", "9" >>
TokBad == << "b", "a", "d" >>
TokEmpty == << >>
TokIPv6Spaced == << " ", ":", ":", "1", " " >>
TokIP9AfterCRLF == << "\r", "\n", "9", ".", "9", ".", "9", ".", "9" >>
TokIP8InUnicodeSpace ==
    << NoBreakSpace, "8", ".", "8", ".", "8", ".", "8", VerticalTab, "U+2003" >>
ForwardedTokens ==
    {TokIP8, TokIP9Spaced, TokBad, TokEmpty, TokIPv6Spaced, TokIP9AfterCRLF,
     TokIP8InUnicodeSpace}

\* The longest X-Forwarded-For list tried.
MaxForwarded == 2

RECURSIVE JoinComma(_)
JoinComma(toks) ==
    IF Len(toks) = 1 THEN toks[1]
    ELSE toks[1] \o << "," >> \o JoinComma(Tail(toks))

TokenLists == UNION {[1..n -> ForwardedTokens] : n \in 1..MaxForwarded}

\* Header value lists: absent, one line with a token list, or two lines.
ForwardedHeaders ==
    {<< >>} \cup {<< JoinComma(toks) >> : toks \in TokenLists}
    \cup {<< TokBad, TokIP8 >>}

RealIPHeaders ==
    {<< >>,
     << << "7", ".", "7", ".", "7", ".", "7" >> >>,
     << << " ", "7", ".", "7", ".", "7", ".", "7", "\t" >> >>,
     << << "7", ".", "7", ".", "7", ".", "7", "\n" >> >>,
     << << "\f", NextLine, "7", ".", "7", ".", "7", ".", "7" >> >>,
     << << "1", ".", "2", ".", "3", ".", "0", "4" >> >>,
     << << "b", "a", "d" >> >>}

RemoteAddrs ==
    {<< "6", ".", "6", ".", "6", ".", "6", ":", "1", "2", "3", "4" >>,
     << "[", ":", ":", "1", "]", ":", "8", "0" >>,
     << "6", ".", "6", ".", "6", ".", "6" >>,
     << "h", "o", "s", "t", ":", "8", "0" >>,
     << ":", ":", "1" >>,
     << >>}

Request(xff, xri, addr) ==
    [isNil |-> FALSE, Method |-> "GET",
     URL |-> [Path |-> "/test", RawQuery |-> "q=1"],
     UserAgentHeader |-> << "TestAgent" >>,
     XForwardedFor |-> xff, XRealIP |-> xri, RemoteAddr |-> addr]

ResolverRequests ==
    {Request(xff, xri, addr) :
        xff \in ForwardedHeaders, xri \in RealIPHeaders, addr \in RemoteAddrs}

\* Requests handed to dispatch.
DispatchRequests ==
    {NilRequest,
     Request(<< JoinComma(<< TokBad, TokIP9Spaced >>) >>, << >>,
             << "6", ".", "6", ".", "6", ".", "6", ":", "1", "2", "3", "4" >>)}

NoArgs == [none |-> TRUE]
NoRet == << >>

(***************************************************************************)
(* The package as a state machine: every exported operation is one step.   *)
(* The arguments of the dispatch call under study are fixed by the initial *)
(* state; registry changes happen before and between calls.                *)
(***************************************************************************)
DispatchCalls ==
    {[w |-> wr, r |-> r, statusCode |-> c, message |-> msg, data |-> d,
      details |-> det] :
        wr \in Writers, r \in DispatchRequests, c \in StatusCodes,
        msg \in Messages, d \in DataValues, det \in DetailsValues}

Init ==
    /\ call \in DispatchCalls
    /\ statusConfigMap = InitialStatusConfigMap
    /\ logger = DefaultLogger
    /\ op = "init"
    /\ args = NoArgs
    /\ w = NewWriter
    /\ resp = NoResponse
    /\ logs = << >>
    /\ events = << >>
    /\ ret = NoRet

AddStatusConfig(statusCode, config) ==
    /\ statusConfigMap' = AddStatusConfigMap(statusConfigMap, statusCode, config)
    /\ logs' = AddStatusConfigLogs(statusConfigMap, logger, statusCode)
    /\ events' = LogEvents(logs')
    /\ op' = "AddStatusConfig"
    /\ args' = [statusCode |-> statusCode, config |-> config]
    /\ w' = NewWriter
    /\ resp' = NoResponse
    /\ UNCHANGED <<logger, ret, call>>

\* Variant: the supplied logger is stored without the nil test.
SetConfigLogger_Unconditional(current, cfgLogger) == cfgLogger

\* SetConfig(cfg): only a non-nil Logger replaces the default.
SetConfigLogger(current, cfgLogger) ==
    IF cfgLogger # NilLogger THEN cfgLogger ELSE current

SetConfig(cfgLogger) ==
    /\ logger' = SetConfigLogger(logger, cfgLogger)
    /\ op' = "SetConfig"
    /\ args' = [Logger |-> cfgLogger]
    /\ logs' = << >>
    /\ events' = << >>
    /\ w' = NewWriter
    /\ resp' = NoResponse
    /\ UNCHANGED <<statusConfigMap, ret, call>>

\* Variant: a dispatch of a code without a profile registers one for it.
Dispatch_RegistersUnknownCode ==
    LET out == HTTPResponse(statusConfigMap, logger, call.w, call.r,
                            call.statusCode, call.message, call.data,
                            call.details)
    IN  /\ op' = "HTTPResponse"
        /\ args' = call
        /\ w' = out.w
        /\ resp' = out.resp
        /\ logs' = out.logs
        /\ events' = out.events
        /\ statusConfigMap' =
              IF MapExists(statusConfigMap, out.resp.StatusCode)
              THEN statusConfigMap
              ELSE AddStatusConfigMap(statusConfigMap, out.resp.StatusCode,
                       StatusConfig(ResponseLogLevel(statusConfigMap, out.resp.StatusCode),
                                    out.resp.Message, "unknown_error"))
        /\ UNCHANGED <<logger, ret, call>>

\* What one call leaves behind: the writer, the envelope, the records.
Deliver(out) ==
    /\ args' = call
    /\ w' = out.w
    /\ resp' = out.resp
    /\ logs' = out.logs
    /\ events' = out.events
    /\ UNCHANGED <<statusConfigMap, logger, ret, call>>

Dispatch ==
    /\ op' = "HTTPResponse"
    /\ Deliver(HTTPResponse(statusConfigMap, logger, call.w, call.r,
                            call.statusCode, call.message, call.data,
                            call.details))

\* One call of JSONResponse with the same arguments; the level of its
\* "HTTP response" record is any of the levels.
DeliverJSON(out) ==
    /\ args' = call
    /\ w' = out.w
    /\ resp' = out.resp
    /\ events' = out.events
    /\ \E configLogLevel \in Levels : logs' = out.logs[configLogLevel]
    /\ UNCHANGED <<statusConfigMap, logger, ret, call>>

DispatchJSON ==
    /\ op' = "JSONResponse"
    /\ DeliverJSON(JSONResponse(statusConfigMap, logger, call.w, call.r,
                                call.statusCode, call.message, call.data,
                                call.details))

Next ==
    \/ \E c \in AddCodes, cfg \in AddConfigs : AddStatusConfig(c, cfg)
    \/ Dispatch
    \/ DispatchJSON

Spec == Init /\ [][Next]_vars

(***************************************************************************)
(* The same machine with the logger configurable, for a few calls.         *)
(***************************************************************************)
ConfigCalls ==
    {c \in DispatchCalls :
        /\ c.w = NewWriter
        /\ c.statusCode \in {0, 200, 418}
        /\ c.message = ""
        /\ c.data \in {NilData, ChanData}
        /\ c.details = NilDetails}

InitConfig ==
    /\ call \in ConfigCalls
    /\ statusConfigMap = InitialStatusConfigMap
    /\ logger = DefaultLogger
    /\ op = "init"
    /\ args = NoArgs
    /\ w = NewWriter
    /\ resp = NoResponse
    /\ logs = << >>
    /\ events = << >>
    /\ ret = NoRet

NextConfig ==
    \/ \E lg \in Loggers : SetConfig(lg)
    \/ \E c \in AddCodes, cfg \in AddConfigs : AddStatusConfig(c, cfg)
    \/ Dispatch
    \/ DispatchJSON

SpecConfig == InitConfig /\ [][NextConfig]_vars

(***************************************************************************)
(* The resolver as a function of the request: every request of             *)
(* ResolverRequests is an initial state, and one step resolves it.         *)
(***************************************************************************)
InitResolver ==
    /\ statusConfigMap = InitialStatusConfigMap
    /\ logger = DefaultLogger
    /\ op = "init"
    /\ call \in {[r |-> r] : r \in ResolverRequests}
    /\ args = NoArgs
    /\ w = NewWriter
    /\ resp = NoResponse
    /\ logs = << >>
    /\ events = << >>
    /\ ret = NoRet

ResolveClientIP ==
    /\ op = "init"
    /\ op' = "getClientIP"
    /\ args' = call
    /\ ret' = getClientIP(call.r)
    /\ UNCHANGED <<statusConfigMap, logger, w, resp, logs, events, call>>

NextResolver == ResolveClientIP

SpecResolver == InitResolver /\ [][NextResolver]_vars

(***************************************************************************)
(* getMessageForStatus on its own, on any integer code, with the registry  *)
(* extended before or after the call.                                      *)
(***************************************************************************)
MessageCodes ==
    {-1, 0, 99, 100, 199, 200, 203, 299, 300, 399, 400, 418, 499,
     500, 507, 599, 600, 700}

MessageCalls ==
    {[statusCode |-> c, providedMessage |-> msg] :
        c \in MessageCodes, msg \in Messages}

InitMessage ==
    /\ statusConfigMap = InitialStatusConfigMap
    /\ logger = DefaultLogger
    /\ op = "init"
    /\ call \in MessageCalls
    /\ args = NoArgs
    /\ w = NewWriter
    /\ resp = NoResponse
    /\ logs = << >>
    /\ events = << >>
    /\ ret = NoRet

ResolveMessage ==
    /\ op' = "getMessageForStatus"
    /\ args' = call
    /\ ret' = getMessageForStatus(statusConfigMap, call.statusCode,
                                  call.providedMessage)
    /\ logs' = << >>
    /\ events' = << >>
    /\ UNCHANGED <<statusConfigMap, logger, w, resp, call>>

NextMessage ==
    \/ \E c \in AddCodes, cfg \in AddConfigs : AddStatusConfig(c, cfg)
    \/ ResolveMessage

SpecMessage == InitMessage /\ [][NextMessage]_vars

(***************************************************************************)
(* GetStatusConfig on the registry as the package initialises it, for      *)
(* every code of a range that covers the valid codes and both sides.       *)
(***************************************************************************)
MaxLookupCode == 700
LookupCodes == {-1} \cup 0..MaxLookupCode

InitLookup ==
    /\ statusConfigMap = InitialStatusConfigMap
    /\ logger = DefaultLogger
    /\ op = "init"
    /\ call \in {[statusCode |-> c] : c \in LookupCodes}
    /\ args = NoArgs
    /\ w = NewWriter
    /\ resp = NoResponse
    /\ logs = << >>
    /\ events = << >>
    /\ ret = NoRet

Lookup ==
    /\ op = "init"
    /\ op' = "GetStatusConfig"
    /\ args' = call
    /\ ret' = GetStatusConfig(statusConfigMap, call.statusCode)
    /\ UNCHANGED <<statusConfigMap, logger, w, resp, logs, events, call>>

\* A dispatch of the same code, the other arguments fixed.
LookupDispatchCall ==
    [w |-> NewWriter,
     r |-> Request(<< >>, << >>, Addr6666Port),
     statusCode |-> call.statusCode,
     message |-> "", data |-> NilData, details |-> NilDetails]

DispatchCode ==
    /\ op = "init"
    /\ LET c == LookupDispatchCall
           out == HTTPResponse(statusConfigMap, logger, c.w, c.r, c.statusCode,
                               c.message, c.data, c.details)
       IN  /\ op' = "HTTPResponse"
           /\ args' = c
           /\ w' = out.w
           /\ resp' = out.resp
           /\ logs' = out.logs
           /\ events' = out.events
    /\ UNCHANGED <<statusConfigMap, logger, ret, call>>

\* The same call made through JSONResponse.
DispatchCodeJSON ==
    /\ op = "init"
    /\ LET c == LookupDispatchCall
           out == JSONResponse(statusConfigMap, logger, c.w, c.r, c.statusCode,
                               c.message, c.data, c.details)
       IN  /\ op' = "JSONResponse"
           /\ args' = c
           /\ w' = out.w
           /\ resp' = out.resp
           /\ \E configLogLevel \in Levels : logs' = out.logs[configLogLevel]
           /\ events' = out.events
    /\ UNCHANGED <<statusConfigMap, logger, ret, call>>

NextLookup == Lookup \/ DispatchCode \/ DispatchCodeJSON

SpecLookup == InitLookup /\ [][NextLookup]_vars

(***************************************************************************)
(* Concurrent dispatch: NumWorkers dispatch calls, one per worker,         *)
(* interleaved at every access to what the workers share: the registry     *)
(* (read only here) and the logger.  In this specification call, op, args, *)
(* w and resp are indexed by worker: call[p] holds the arguments of p's    *)
(* call, op[p] its position, args[p] its local variables, w[p] its own     *)
(* writer and resp[p] the envelope it built; logs is the one log sink.     *)
(***************************************************************************)
NumWorkers == 2
Workers == 1..NumWorkers

\* Calls followed step by step, each through one of the two dispatchers (fn).
SteppedCalls ==
    {[fn |-> fn, w |-> c.w, r |-> c.r, statusCode |-> c.statusCode,
      message |-> c.message, data |-> c.data, details |-> c.details] :
        fn \in {"HTTPResponse", "JSONResponse"},
        c \in {d \in DispatchCalls :
                  /\ d.w = NewWriter
                  /\ d.message = ""
                  /\ d.details = NilDetails
                  /\ \/ d.statusCode = 200 /\ ~ d.r.isNil /\ d.data = MapData
                     \/ d.statusCode = 600 /\ d.r.isNil /\ d.data = NilData
                     \/ d.statusCode = 418 /\ ~ d.r.isNil /\ d.data = ChanData
                     \/ d.statusCode = 400 /\ d.r.isNil /\ d.data = MapData}}

\* The calls that run concurrently, through both dispatchers.
ConcurrentCalls ==
    {c \in SteppedCalls :
        \/ c.fn = "HTTPResponse" /\ c.statusCode \in {200, 600}
        \/ c.fn = "JSONResponse" /\ c.statusCode = 400}

\* Registries fixed before traffic starts.
TrafficRegistries ==
    {InitialStatusConfigMap,
     AddStatusConfigMap(InitialStatusConfigMap, 418,
                        StatusConfig(LevelError, "Custom default", "custom_error"))}

\* The goroutine that calls AddStatusConfig while dispatches run (SpecRace);
\* it is no worker.
Registrar == 0

NoLocals ==
    [statusCode |-> 0, reqInfo |-> ZeroRequestInfo, message |-> "",
     errorInfo |-> NilErrorInfo, logLevel |-> 0]

InitConcurrent ==
    /\ statusConfigMap \in TrafficRegistries
    /\ logger = DefaultLogger
    /\ call \in [Workers -> ConcurrentCalls]
    /\ op = [p \in Workers |-> "validate"]
    /\ args = [p \in Workers |-> NoLocals]
    /\ w = [p \in Workers |-> call[p].w]
    /\ resp = [p \in Workers |-> NoResponse]
    /\ logs = << >>
    /\ events = << >>
    /\ ret = NoRet

\* statusCode = validateStatusCode(statusCode)
WorkerValidate(p) ==
    /\ op[p] = "validate"
    /\ op' = [op EXCEPT ![p] = IF call[p].fn = "JSONResponse"
                                THEN "jsonMessage" ELSE "extract"]
    /\ args' = [args EXCEPT ![p].statusCode = validateStatusCode(call[p].statusCode)]
    /\ logs' = logs \o validateStatusCodeLogs(logger, call[p].statusCode)
    /\ UNCHANGED <<statusConfigMap, logger, call, w, resp, events, ret>>

\* reqInfo from the request, or the warning about a nil request.
WorkerExtract(p) ==
    /\ op[p] = "extract"
    /\ op' = [op EXCEPT ![p] = "message"]
    /\ args' = [args EXCEPT ![p].reqInfo =
                    IF ~ call[p].r.isNil THEN extractRequestInfo(call[p].r)
                    ELSE ZeroRequestInfo]
    /\ logs' = logs \o (IF ~ call[p].r.isNil THEN << >>
                         ELSE << LogRecord(logger, LevelWarn, MsgNilRequest, NoAttrs) >>)
    /\ UNCHANGED <<statusConfigMap, logger, call, w, resp, events, ret>>

\* Variant: a read may also see the table the package started with, even
\* after a write has completed.
ObservedRegistries_StaleReads ==
    {statusConfigMap, InitialStatusConfigMap}

\* A string whose bytes cannot be read: its data pointer is nil, or its
\* length runs past the memory that is mapped.  Taking its length and
\* passing it on work; reading its bytes is a nil pointer dereference.
FaultingString == "<fault>"
Faults(s) == s = FaultingString

\* Values that stand for the bytes found in memory after the end of a string.
AdjacentBytes == {"0", "z"}

RECURSIVE Overread(_)
Overread(n) ==
    IF n = 0 THEN {""}
    ELSE {b \o rest : b \in AdjacentBytes, rest \in Overread(n - 1)}

\* The string made of the data pointer of one string and the length of
\* another.  Length 0 reads nothing; the zero value and the empty literal
\* have no data pointer; a shorter length gives a prefix; a longer one runs
\* into the memory after the bytes.
GoString(data, length) ==
    IF length = 0 THEN {""}
    ELSE IF Len(data) = 0 THEN {FaultingString}
    ELSE IF length <= Len(data) THEN {SubSeq(data, 1, length)}
    ELSE {data \o tail : tail \in Overread(length - Len(data))}
         \cup {FaultingString}

\* What a racing read can find in a string field that is being replaced:
\* the pointer word and the length word are copied one after the other, so
\* each is the old one or the new one.
TornStrings(from, to) ==
    UNION {GoString(data, Len(length)) :
              data \in {from, to}, length \in {from, to}}

\* statusConfigMap[statusCode] = config is not one step: the key is put in
\* the map with its slot first, and the five words of the profile (the
\* level, and a pointer and a length for each string) are copied into the
\* slot afterwards.  A read that races with the store finds each word of
\* the slot either still as it was (from) or already copied (to).
TornConfigs(from, to) ==
    {StatusConfig(level, msg, etype) :
        level \in {from.LogLevel, to.LogLevel},
        msg \in TornStrings(from.DefaultMessage, to.DefaultMessage),
        etype \in TornStrings(from.ErrorType, to.ErrorType)}

\* The registries a store of config under statusCode can show to a racing
\* read: the map before it, and the map with the key present and the slot
\* in any state of the copy, from untouched (the zero profile for a new
\* key, the old profile for a known one) to complete.
StoreRegistries(m, statusCode, config) ==
    {m} \cup {AddStatusConfigMap(m, statusCode, slot) :
                 slot \in TornConfigs(MapConfig(m, statusCode), config)}

\* The registries a read of statusConfigMap can see: the map itself, or,
\* while AddStatusConfig is writing it without a lock, any state of that
\* store.
ObservedRegistries ==
    IF Registrar \in DOMAIN op /\ op[Registrar] = "write"
    THEN StoreRegistries(statusConfigMap, args[Registrar].statusCode,
                         args[Registrar].config)
    ELSE {statusConfigMap}

\* message = getMessageForStatus(statusCode, message): the first read.
WorkerMessage(p) ==
    /\ op[p] = "message"
    /\ op' = [op EXCEPT ![p] = "config"]
    /\ \E m \in ObservedRegistries :
          args' = [args EXCEPT ![p].message =
                      getMessageForStatus(m, args[p].statusCode, call[p].message)]
    /\ UNCHANGED <<statusConfigMap, logger, call, w, resp, logs, events, ret>>

\* config, exists := statusConfigMap[statusCode]: the second read, which
\* the error type and the log level are both taken from.
WorkerConfig(p) ==
    /\ op[p] = "config"
    /\ op' = [op EXCEPT ![p] = "send"]
    /\ \E m \in ObservedRegistries :
          args' = [args EXCEPT
                      ![p].errorInfo =
                          BuildErrorInfo(m, args[p].statusCode, call[p].details),
                      ![p].logLevel = ResponseLogLevel(m, args[p].statusCode)]
    /\ UNCHANGED <<statusConfigMap, logger, call, w, resp, logs, events, ret>>

\* Variant: the envelope is kept in one package-level variable, so building
\* one worker's envelope replaces every worker's.
WorkerSend_SharedEnvelope(p) ==
    /\ op[p] = "send"
    /\ op' = [op EXCEPT ![p] = "encode"]
    /\ resp' = [q \in DOMAIN resp |->
                   [Status |-> ResponseStatus(args[p].statusCode),
                    StatusCode |-> args[p].statusCode,
                    Message |-> args[p].message,
                    Data |-> call[p].data,
                    Error |-> args[p].errorInfo]]
    /\ w' = [w EXCEPT ![p].header = ResponseHeaders(w[p].header),
                      ![p].status = w[p].status \o << args[p].statusCode >>]
    /\ UNCHANGED <<statusConfigMap, logger, call, args, logs, events, ret>>

\* The three Header().Set calls, the envelope and WriteHeader: the worker's
\* own writer and local variables only.
WorkerSend(p) ==
    /\ op[p] = "send"
    /\ op' = [op EXCEPT ![p] = "encode"]
    /\ resp' = [resp EXCEPT ![p] =
                   [Status |-> ResponseStatus(args[p].statusCode),
                    StatusCode |-> args[p].statusCode,
                    Message |-> args[p].message,
                    Data |-> call[p].data,
                    Error |-> args[p].errorInfo]]
    /\ w' = [w EXCEPT ![p].header = ResponseHeaders(w[p].header),
                      ![p].status = w[p].status \o << args[p].statusCode >>]
    /\ UNCHANGED <<statusConfigMap, logger, call, args, logs, events, ret>>

\* Encode marshals the envelope field by field (Message, then Data, then
\* Error) into a buffer and writes the buffer; a failure is logged with the
\* attributes of the response, the error type among them.  Reading a
\* string that faults, in either place, panics: nothing more is written or
\* logged and the call unwinds.
EncodeFaults(rsp) ==
    \/ Faults(rsp.Message)
    \/ ~ rsp.Error.isNil /\ Faults(rsp.Error.Type)

\* Encode: the body is written, or the failure is logged and the call ends.
WorkerEncode(p) ==
    /\ op[p] = "encode"
    /\ LET encoded == Marshals(resp[p].Data) /\ ~ w[p].writeErr
           logAttrs == ResponseLogAttrs(resp[p], args[p].reqInfo)
       IN  IF EncodeFaults(resp[p])
           THEN /\ op' = [op EXCEPT ![p] = "panicked"]
                /\ w' = w
                /\ logs' = logs
           ELSE IF encoded
           THEN /\ op' = [op EXCEPT ![p] = "log"]
                /\ w' = [w EXCEPT ![p].body =
                             w[p].body \o << EncodeResponse(resp[p]) >>]
                /\ logs' = logs
           ELSE /\ op' = [op EXCEPT ![p] = "done"]
                /\ w' = w
                /\ logs' = logs \o
                     << LogRecord(logger, LevelError, MsgEncodeFailed,
                           [k \in DOMAIN logAttrs \cup {"encoding_error"} |->
                               IF k = "encoding_error"
                               THEN IF Marshals(resp[p].Data) THEN "write error"
                                    ELSE "json: unsupported type"
                               ELSE logAttrs[k]]) >>
    /\ UNCHANGED <<statusConfigMap, logger, call, args, resp, events, ret>>

\* The response record.
WorkerLog(p) ==
    /\ op[p] = "log"
    /\ op' = [op EXCEPT ![p] = "done"]
    /\ logs' = logs \o
         << LogRecord(logger, args[p].logLevel,
                      ResponseLogMessage(args[p].statusCode),
                      ResponseLogAttrs(resp[p], args[p].reqInfo)) >>
    /\ UNCHANGED <<statusConfigMap, logger, call, args, w, resp, events, ret>>

(***************************************************************************)
(* The steps of JSONResponse between validation and the response record.   *)
(* It reads the registry three times: for the message, for the error type  *)
(* and, after the body is written, for the level.                          *)
(***************************************************************************)
\* message = getMessageForStatus(statusCode, message): the first read.
JSONMessage(p) ==
    /\ op[p] = "jsonMessage"
    /\ op' = [op EXCEPT ![p] = "jsonExtract"]
    /\ \E m \in ObservedRegistries :
          args' = [args EXCEPT ![p].message =
                      getMessageForStatus(m, args[p].statusCode, call[p].message)]
    /\ UNCHANGED <<statusConfigMap, logger, call, w, resp, logs, events, ret>>

\* reqInfo from the request, or the "UNKNOWN" placeholder and the warning.
JSONExtract(p) ==
    /\ op[p] = "jsonExtract"
    /\ op' = [op EXCEPT ![p] = "jsonConfig"]
    /\ args' = [args EXCEPT ![p].reqInfo =
                    IF ~ call[p].r.isNil THEN extractRequestInfo(call[p].r)
                    ELSE UnknownRequestInfo]
    /\ logs' = logs \o (IF ~ call[p].r.isNil THEN << >>
                         ELSE << LogRecord(logger, LevelWarn, MsgNilRequest, NoAttrs) >>)
    /\ UNCHANGED <<statusConfigMap, logger, call, w, resp, events, ret>>

\* config, exists := statusConfigMap[statusCode] on the statusCode >= 400
\* branch: the second read, which gives the error type.
JSONConfig(p) ==
    /\ op[p] = "jsonConfig"
    /\ op' = [op EXCEPT ![p] = "jsonSend"]
    /\ \E m \in ObservedRegistries :
          args' = [args EXCEPT ![p].errorInfo =
                      BuildErrorInfo(m, args[p].statusCode, call[p].details)]
    /\ UNCHANGED <<statusConfigMap, logger, call, w, resp, logs, events, ret>>

\* The three Header().Set calls, the envelope, the "HTTP response" record at
\* whatever level config.LogLevel stands for, and WriteHeader.  The record
\* carries the message: one that faults panics there, before WriteHeader.
JSONSend(p) ==
    /\ op[p] = "jsonSend"
    /\ resp' = [resp EXCEPT ![p] =
                   [Status |-> ResponseStatus(args[p].statusCode),
                    StatusCode |-> args[p].statusCode,
                    Message |-> args[p].message,
                    Data |-> call[p].data,
                    Error |-> args[p].errorInfo]]
    /\ IF Faults(args[p].message)
       THEN /\ op' = [op EXCEPT ![p] = "panicked"]
            /\ w' = [w EXCEPT ![p].header = ResponseHeaders(w[p].header)]
            /\ logs' = logs
       ELSE /\ op' = [op EXCEPT ![p] = "jsonEncode"]
            /\ w' = [w EXCEPT ![p].header = ResponseHeaders(w[p].header),
                              ![p].status = w[p].status \o << args[p].statusCode >>]
            /\ \E configLogLevel \in Levels :
                  logs' = logs \o
                     << LogRecord(logger, configLogLevel, MsgResponse,
                           [k \in {"statusCode", "message"} |->
                               IF k = "statusCode" THEN args[p].statusCode
                               ELSE args[p].message]) >>
    /\ UNCHANGED <<statusConfigMap, logger, call, args, events, ret>>

\* Encode: the body is written, or the failure is logged and the call ends.
JSONEncode(p) ==
    /\ op[p] = "jsonEncode"
    /\ LET encoded == Marshals(resp[p].Data) /\ ~ w[p].writeErr
           logAttrs == ResponseLogAttrs(resp[p], args[p].reqInfo)
       IN  IF EncodeFaults(resp[p])
           THEN /\ op' = [op EXCEPT ![p] = "panicked"]
                /\ w' = w
                /\ logs' = logs
           ELSE IF encoded
           THEN /\ op' = [op EXCEPT ![p] = "jsonLevel"]
                /\ w' = [w EXCEPT ![p].body =
                             w[p].body \o << EncodeResponse(resp[p]) >>]
                /\ logs' = logs
           ELSE /\ op' = [op EXCEPT ![p] = "done"]
                /\ w' = w
                /\ logs' = logs \o
                     << LogRecord(logger, LevelError, MsgEncodeFailed,
                           [k \in DOMAIN logAttrs \cup {"encoding_error"} |->
                               IF k = "encoding_error"
                               THEN IF Marshals(resp[p].Data) THEN "write error"
                                    ELSE "json: unsupported type"
                               ELSE logAttrs[k]]) >>
    /\ UNCHANGED <<statusConfigMap, logger, call, args, resp, events, ret>>

\* if config, exists := statusConfigMap[statusCode]; exists: the third read,
\* which gives the level of the response record that WorkerLog writes.
JSONLevel(p) ==
    /\ op[p] = "jsonLevel"
    /\ op' = [op EXCEPT ![p] = "log"]
    /\ \E m \in ObservedRegistries :
          args' = [args EXCEPT ![p].logLevel =
                      ResponseLogLevel(m, args[p].statusCode)]
    /\ UNCHANGED <<statusConfigMap, logger, call, w, resp, logs, events, ret>>

\* One step of the call of worker p, through whichever dispatcher it uses.
WorkerStep(p) ==
    \/ WorkerValidate(p)
    \/ WorkerExtract(p)
    \/ WorkerMessage(p)
    \/ WorkerConfig(p)
    \/ WorkerSend(p)
    \/ WorkerEncode(p)
    \/ WorkerLog(p)
    \/ JSONMessage(p)
    \/ JSONExtract(p)
    \/ JSONConfig(p)
    \/ JSONSend(p)
    \/ JSONEncode(p)
    \/ JSONLevel(p)

NextConcurrent == \E p \in Workers : WorkerStep(p)

SpecConcurrent == InitConcurrent /\ [][NextConcurrent]_vars

(***************************************************************************)
(* extractRequestInfo as a function of the request, with the registry      *)
(* extended before or after the call.                                      *)
(***************************************************************************)
Methods == {"GET", "PUT"}
URLs == {[Path |-> "/info", RawQuery |-> ""],
         [Path |-> "/test", RawQuery |-> "q=1"]}
UserAgentHeaders == {<< >>, << "TestAgent" >>, << "First", "Second" >>}

ExtractRequests ==
    {[Request(xff, << >>, addr) EXCEPT
          !.Method = method, !.URL = url, !.UserAgentHeader = ua] :
        xff \in {<< >>, << JoinComma(<< TokBad, TokIP9Spaced >>) >>},
        addr \in {Addr6666Port, AddrIPv6Port},
        method \in Methods, url \in URLs, ua \in UserAgentHeaders}

InitExtract ==
    /\ statusConfigMap = InitialStatusConfigMap
    /\ logger = DefaultLogger
    /\ op = "init"
    /\ call \in {[r |-> r] : r \in ExtractRequests}
    /\ args = NoArgs
    /\ w = NewWriter
    /\ resp = NoResponse
    /\ logs = << >>
    /\ events = << >>
    /\ ret = NoRet

\* args holds the request as it is after the call.
ExtractInfo ==
    /\ op' = "extractRequestInfo"
    /\ args' = call
    /\ ret' = extractRequestInfo(call.r)
    /\ logs' = << >>
    /\ events' = << >>
    /\ UNCHANGED <<statusConfigMap, logger, w, resp, call>>

NextExtract ==
    \/ \E c \in AddCodes, cfg \in AddConfigs : AddStatusConfig(c, cfg)
    \/ ExtractInfo

SpecExtract == InitExtract /\ [][NextExtract]_vars

(***************************************************************************)
(* Registry mutation during traffic: one AddStatusConfig call, made by the *)
(* registrar, runs concurrently with the dispatch calls of RaceWorkers.    *)
(* The map write takes no lock: from the moment the registrar is about to  *)
(* write until the write is done, a read of the map by a dispatch is a     *)
(* data race, which yields the old map, the new map, the slot of the key   *)
(* with any of its words copied and the others not, or the runtime's fatal *)
(* error for a concurrent map read and write.  ret records which           *)
(* dispatches cannot have raced: those that had returned when the write    *)
(* began and those that had not begun when it completed.                   *)
(***************************************************************************)
RaceWorkers == {1}

RaceAdds ==
    {[statusCode |-> 400,
      config |-> StatusConfig(LevelError, "The request contains invalid input",
                              "invalid_request")],
     [statusCode |-> 418,
      config |-> StatusConfig(LevelError, "Custom default", "custom_error")]}

NoRace == [finishedBefore |-> {}, startedAfter |-> {}]

InitRace ==
    /\ statusConfigMap = InitialStatusConfigMap
    /\ logger = DefaultLogger
    /\ call \in [RaceWorkers -> SteppedCalls]
    /\ op = [q \in RaceWorkers \cup {Registrar} |->
                IF q = Registrar THEN "check" ELSE "validate"]
    /\ \E add \in RaceAdds :
          args = [q \in RaceWorkers \cup {Registrar} |->
                     IF q = Registrar THEN add ELSE NoLocals]
    /\ w = [p \in RaceWorkers |-> call[p].w]
    /\ resp = [p \in RaceWorkers |-> NoResponse]
    /\ logs = << >>
    /\ events = << >>
    /\ ret = NoRace

Returned == {p \in RaceWorkers : op[p] = "done"}
NotBegun == {p \in RaceWorkers : op[p] = "validate"}

\* if _, exists := statusConfigMap[statusCode]; !exists
RegistrarCheck ==
    /\ op[Registrar] = "check"
    /\ IF MapExists(statusConfigMap, args[Registrar].statusCode)
       THEN /\ op' = [op EXCEPT ![Registrar] = "warn"]
            /\ ret' = ret
       ELSE /\ op' = [op EXCEPT ![Registrar] = "write"]
            /\ ret' = [ret EXCEPT !.finishedBefore = Returned]
    /\ UNCHANGED <<statusConfigMap, logger, call, args, w, resp, logs, events>>

\* The warning of the overwrite branch.
RegistrarWarn ==
    /\ op[Registrar] = "warn"
    /\ op' = [op EXCEPT ![Registrar] = "write"]
    /\ logs' = logs \o AddStatusConfigLogs(statusConfigMap, logger,
                                           args[Registrar].statusCode)
    /\ ret' = [ret EXCEPT !.finishedBefore = Returned]
    /\ UNCHANGED <<statusConfigMap, logger, call, args, w, resp, events>>

\* statusConfigMap[statusCode] = config
RegistrarWrite ==
    /\ op[Registrar] = "write"
    /\ op' = [op EXCEPT ![Registrar] = "done"]
    /\ statusConfigMap' = AddStatusConfigMap(statusConfigMap,
                              args[Registrar].statusCode, args[Registrar].config)
    /\ ret' = [ret EXCEPT !.startedAfter = NotBegun]
    /\ UNCHANGED <<logger, call, args, w, resp, logs, events>>

\* The runtime detects a map read during the map write and ends the process.
RaceDetected ==
    /\ op[Registrar] = "write"
    /\ \E p \in RaceWorkers :
          \/ op[p] = "config"
          \/ op[p] \in {"message", "jsonMessage"} /\ call[p].message = ""
          \/ op[p] = "jsonConfig" /\ args[p].statusCode >= 400
          \/ op[p] = "jsonLevel"
    /\ op' = [q \in DOMAIN op |-> "crashed"]
    /\ UNCHANGED <<statusConfigMap, logger, call, args, w, resp, logs, events, ret>>

NextRace ==
    \/ \E p \in RaceWorkers : WorkerStep(p)
    \/ RegistrarCheck
    \/ RegistrarWarn
    \/ RegistrarWrite
    \/ RaceDetected

SpecRace == InitRace /\ [][NextRace]_vars

(***************************************************************************)
(* Dispatch of out-of-range codes, with profiles registered for 500 and    *)
(* for a code outside [100,599].                                           *)
(***************************************************************************)
OutOfRangeAddCodes == {500, 600}

OutOfRangeCalls ==
    {c \in DispatchCalls :
        /\ c.w = NewWriter
        /\ c.statusCode \in {-1, 500, 600}
        /\ c.data \in {NilData, MapData}
        /\ c.details \in {NilDetails, FieldDetails}}

InitOutOfRange ==
    /\ call \in OutOfRangeCalls
    /\ statusConfigMap = InitialStatusConfigMap
    /\ logger = DefaultLogger
    /\ op = "init"
    /\ args = NoArgs
    /\ w = NewWriter
    /\ resp = NoResponse
    /\ logs = << >>
    /\ events = << >>
    /\ ret = NoRet

NextOutOfRange ==
    \/ \E c \in OutOfRangeAddCodes, cfg \in AddConfigs : AddStatusConfig(c, cfg)
    \/ Dispatch
    \/ DispatchJSON

SpecOutOfRange == InitOutOfRange /\ [][NextOutOfRange]_vars

(***************************************************************************)
(* Properties of the dispatcher (checked under Spec).                      *)
(***************************************************************************)
Dispatched == op \in {"HTTPResponse", "JSONResponse"}
InRange(c) == c >= 100 /\ c <= 599
Validated(c) == IF InRange(c) THEN c ELSE 500

\* C1 as stated: for every status code c in [100,599] and every message,
\* data, details and request, one dispatch writes exactly one status line,
\* equal to c, and the body carries an envelope whose status code is c.
C1_BodyAlwaysCarriesCode ==
    (Dispatched /\ InRange(args.statusCode)) =>
        /\ w.status = << args.statusCode >>
        /\ Len(w.body) = 1
        /\ w.body[1]["statusCode"] = args.statusCode

\* C1 amended: for every status code c in [100,599], one dispatch writes
\* exactly one status line, equal to c, and builds an envelope with status
\* code c; the body carries that envelope when encoding it succeeds (data
\* can be serialized and the writer accepts the write) and stays empty
\* otherwise.
C1_StatusLineAndEnvelopeCode ==
    (Dispatched /\ InRange(args.statusCode)) =>
        /\ w.status = << args.statusCode >>
        /\ resp.StatusCode = args.statusCode
        /\ IF args.data.kind # "chan" /\ ~ args.w.writeErr
           THEN Len(w.body) = 1 /\ w.body[1]["statusCode"] = args.statusCode
           ELSE w.body = << >>

C1_Witness ==
    /\ Dispatched
    /\ args.statusCode = 599
    /\ args.r.isNil
    /\ 418 \in DOMAIN statusConfigMap
    /\ w.status = << 599 >>
    /\ Len(w.body) = 1
    /\ w.body[1]["statusCode"] = 599

IsInvalidCodeWarning(rec, c) ==
    /\ rec.msg = MsgInvalidCode
    /\ rec.level = LevelWarn
    /\ rec.logger = logger
    /\ rec.attrs["provided_code"] = c

\* C2: a status code outside [100,599] is written as status line 500 with
\* envelope status code 500 and a warning naming the code is logged; a code
\* inside [100,599] is kept as it is and no such warning is logged.
C2_InvalidCodeBecomes500 ==
    Dispatched =>
        IF ~ InRange(args.statusCode)
        THEN /\ w.status = << 500 >>
             /\ resp.StatusCode = 500
             /\ \A i \in 1..Len(w.body) : w.body[i]["statusCode"] = 500
             /\ \E i \in 1..Len(logs) : IsInvalidCodeWarning(logs[i], args.statusCode)
        ELSE /\ w.status = << args.statusCode >>
             /\ resp.StatusCode = args.statusCode
             /\ \A i \in 1..Len(logs) : logs[i].msg # MsgInvalidCode

C2_Witness ==
    /\ Dispatched
    /\ args.statusCode = 0
    /\ w.status = << 500 >>
    /\ Len(w.body) = 1
    /\ w.body[1]["statusCode"] = 500
    /\ IsInvalidCodeWarning(logs[1], 0)

\* C3: the envelope's status is "error" iff the validated status code is
\* >= 400 and "success" otherwise, whatever the registry holds.
C3_ErrorIffAtLeast400 ==
    Dispatched =>
        /\ resp.Status \in {"success", "error"}
        /\ (resp.Status = "error") <=> (Validated(args.statusCode) >= 400)
        /\ \A i \in 1..Len(w.body) : w.body[i]["status"] = resp.Status

C3_Witness ==
    /\ Dispatched
    /\ args.statusCode = 400
    /\ resp.Status = "error"
    /\ 418 \in DOMAIN statusConfigMap
    /\ statusConfigMap[200].ErrorType = "custom_error"

\* C4: the error object is present iff status is "error": built for every
\* code >= 400 (nil or empty details included), never for a code < 400
\* (non-empty details or a profile with an error type included).
C4_ErrorObjectIffError ==
    Dispatched =>
        /\ (~ resp.Error.isNil) <=> (resp.Status = "error")
        /\ (~ resp.Error.isNil) <=> (Validated(args.statusCode) >= 400)
        /\ \A i \in 1..Len(w.body) :
              ("error" \in DOMAIN w.body[i]) <=> (resp.Status = "error")

C4_Witness ==
    /\ Dispatched
    /\ args.statusCode = 200
    /\ statusConfigMap[200].ErrorType = "custom_error"
    /\ args.details = FieldDetails
    /\ resp.Error.isNil
    /\ Len(w.body) = 1
    /\ "error" \notin DOMAIN w.body[1]

\* C5: a non-empty provided message is the envelope's message verbatim,
\* for every code (registered or not, corrected to 500 or not).
C5_ProvidedMessageVerbatim ==
    (Dispatched /\ args.message # "") =>
        /\ resp.Message = args.message
        /\ \A i \in 1..Len(w.body) : w.body[i]["message"] = args.message

C5_Witness ==
    /\ Dispatched
    /\ args.statusCode = 600
    /\ 600 \in DOMAIN statusConfigMap
    /\ statusConfigMap[200].DefaultMessage = "Custom default"
    /\ args.message = "Success!"
    /\ resp.StatusCode = 500
    /\ resp.Message = "Success!"

\* C6: with an empty provided message and a registered validated code, the
\* envelope's message is the default message of the profile now registered
\* for that code (the new one after an overwrite).
C6_RegisteredDefaultMessage ==
    (Dispatched /\ args.message = ""
        /\ Validated(args.statusCode) \in DOMAIN statusConfigMap) =>
        /\ resp.Message = statusConfigMap[Validated(args.statusCode)].DefaultMessage
        /\ \A i \in 1..Len(w.body) : w.body[i]["message"] = resp.Message

C6_Witness ==
    /\ Dispatched
    /\ args.statusCode = 200
    /\ args.message = ""
    /\ statusConfigMap[200].DefaultMessage = "Custom default"
    /\ resp.Message = "Custom default"

\* C7: the envelope's message is never empty, for any code, any provided
\* message and any registry reachable through AddStatusConfig.
C7_MessageNeverEmpty ==
    Dispatched => resp.Message # ""

(***************************************************************************)
(* Properties of the resolver (checked under SpecResolver).                *)
(***************************************************************************)
Resolved == op = "getClientIP"

\* The tokens of the X-Forwarded-For value Header.Get returns, trimmed.
ForwardedTrimmed(r) ==
    LET toks == Split(HeaderGet(r.XForwardedFor), ",")
    IN  [i \in 1..Len(toks) |-> TrimSpace(toks[i])]

ForwardedHasValid(r) ==
    /\ HeaderGet(r.XForwardedFor) # << >>
    /\ \E i \in 1..Len(ForwardedTrimmed(r)) : ParseIP(ForwardedTrimmed(r)[i])

\* C8: when X-Forwarded-For has a token that, trimmed, is a valid IP
\* literal, the resolver returns the first such token, whatever X-Real-IP
\* and the remote address are.
C8_FirstValidForwarded ==
    (Resolved /\ ForwardedHasValid(args.r)) =>
        LET toks == ForwardedTrimmed(args.r)
        IN  /\ \E i \in 1..Len(toks) :
                /\ ParseIP(toks[i])
                /\ \A j \in 1..(i - 1) : ~ ParseIP(toks[j])
                /\ ret = toks[i]
            /\ (args.r.XForwardedFor = << JoinComma(<< TokBad, TokIP9Spaced >>) >>
                    => ret = IP9999)

C8_Witness ==
    /\ Resolved
    /\ args.r.XForwardedFor = << JoinComma(<< TokBad, TokIP9Spaced >>) >>
    /\ args.r.XRealIP = << IP7777 >>
    /\ args.r.RemoteAddr = Addr6666Port
    /\ ret = IP9999

\* C9: when X-Forwarded-For is absent, empty or without a valid token and
\* the trimmed X-Real-IP is a valid IP literal, the resolver returns the
\* trimmed X-Real-IP, whatever the remote address is.
C9_RealIPWhenNoForwarded ==
    (Resolved /\ ~ ForwardedHasValid(args.r)
        /\ ParseIP(TrimSpace(HeaderGet(args.r.XRealIP)))) =>
        /\ ret = TrimSpace(HeaderGet(args.r.XRealIP))
        /\ ret = IP7777

C9_Witness ==
    /\ Resolved
    /\ args.r.XForwardedFor = << JoinComma(<< TokBad, TokEmpty >>) >>
    /\ args.r.XRealIP = << << " " >> \o IP7777 \o << "\t" >> >>
    /\ args.r.RemoteAddr = Addr6666Port
    /\ ret = IP7777

\* C10: when neither header yields a valid IP and the remote address is
\* host:port with a valid IP literal as host, the resolver returns the
\* host without the port.
C10_RemoteAddrHost ==
    (Resolved /\ ~ ForwardedHasValid(args.r)
        /\ ~ ParseIP(TrimSpace(HeaderGet(args.r.XRealIP)))) =>
        /\ (args.r.RemoteAddr = Addr6666Port => ret = IP6666)
        /\ (args.r.RemoteAddr = AddrIPv6Port => ret = IPv6Loopback)
        /\ (~ SplitHostPort(args.r.RemoteAddr).err
              /\ ParseIP(SplitHostPort(args.r.RemoteAddr).host)
                => ret = SplitHostPort(args.r.RemoteAddr).host)

C10_Witness ==
    /\ Resolved
    /\ args.r.XForwardedFor = << TokBad >>
    /\ args.r.XRealIP = << TokBad >>
    /\ args.r.RemoteAddr = AddrIPv6Port
    /\ ret = IPv6Loopback

\* The valid IP literals the three sources offer: trimmed X-Forwarded-For
\* tokens, the trimmed X-Real-IP, the host of a host:port remote address.
SourceIPs(r) ==
    {ForwardedTrimmed(r)[i] : i \in {j \in 1..Len(ForwardedTrimmed(r)) :
        HeaderGet(r.XForwardedFor) # << >> /\ ParseIP(ForwardedTrimmed(r)[j])}}
    \cup (IF ParseIP(TrimSpace(HeaderGet(r.XRealIP)))
          THEN {TrimSpace(HeaderGet(r.XRealIP))} ELSE {})
    \cup (IF ~ SplitHostPort(r.RemoteAddr).err
             /\ ParseIP(SplitHostPort(r.RemoteAddr).host)
          THEN {SplitHostPort(r.RemoteAddr).host} ELSE {})

Printable == HexDigits \cup Spaces \cup
    {".", ":", ",", "[", "]", "%", "h", "o", "s", "t"}

\* C11: the resolver always returns a string; it is a valid IP literal
\* taken from one of the three sources, or else exactly the raw remote
\* address, which is returned only when no source offers a valid IP.
C11_ResolverTotal ==
    Resolved =>
        /\ ret \in Seq(Printable)
        /\ IF SourceIPs(args.r) # {}
           THEN ret \in SourceIPs(args.r) /\ ParseIP(ret)
           ELSE ret = args.r.RemoteAddr

C11_Witness ==
    /\ Resolved
    /\ args.r.XForwardedFor = << TokBad >>
    /\ args.r.XRealIP = << << "1", ".", "2", ".", "3", ".", "0", "4" >> >>
    /\ args.r.RemoteAddr = << "h", "o", "s", "t", ":", "8", "0" >>
    /\ ret = args.r.RemoteAddr

(***************************************************************************)
(* Order of the writer and logger calls of one dispatch.                   *)
(***************************************************************************)
EventIndexes(kind, what) ==
    {i \in 1..Len(events) : events[i].kind = kind /\ events[i].what = what}

\* Every event of the first kind precedes every event of the second.
AllBefore(first, second) == \A i \in first, j \in second : i < j

SecurityHeaders == {"Content-Type", "X-Content-Type-Options", "Cache-Control"}

\* C12: every dispatch (success, error, corrected code, nil request,
\* failed serialization) sets Content-Type: application/json,
\* X-Content-Type-Options: nosniff and Cache-Control: no-cache, no-store,
\* must-revalidate, all three before the status line is written.
C12_HeadersBeforeStatusLine ==
    Dispatched =>
        /\ DOMAIN w.header = SecurityHeaders
        /\ w.header["Content-Type"] = "application/json"
        /\ w.header["X-Content-Type-Options"] = "nosniff"
        /\ w.header["Cache-Control"] = "no-cache, no-store, must-revalidate"
        /\ Cardinality(EventIndexes("status", "WriteHeader")) = 1
        /\ \A h \in SecurityHeaders :
              /\ EventIndexes("header", h) # {}
              /\ AllBefore(EventIndexes("header", h),
                           EventIndexes("status", "WriteHeader"))

C12_Witness ==
    /\ Dispatched
    /\ args.r.isNil
    /\ args.statusCode = 600
    /\ args.data = ChanData
    /\ w.body = << >>
    /\ w.status = << 500 >>
    /\ w.header["Cache-Control"] = "no-cache, no-store, must-revalidate"

\* The record that describes the response: the last one a dispatch logs.
ResponseRecord == logs[Len(logs)]

IsNilRequestWarning(rec) ==
    /\ rec.msg = MsgNilRequest
    /\ rec.level = LevelWarn

\* C13: a dispatch with a nil request logs a warning about the missing
\* request and its response record carries "UNKNOWN" as method, path,
\* user_agent and remote_ip.
C13_NilRequestLogsUnknown ==
    (Dispatched /\ args.r.isNil) =>
        /\ \E i \in 1..Len(logs) : IsNilRequestWarning(logs[i])
        /\ ResponseRecord.attrs["method"] = Unknown
        /\ ResponseRecord.attrs["path"] = Unknown
        /\ ResponseRecord.attrs["user_agent"] = Unknown
        /\ ResponseRecord.attrs["remote_ip"] = UnknownIP

\* C14: whenever the error object is present its type is non-empty: the
\* registered profile's error type when the validated code is registered
\* with a non-empty type, and "unknown_error" otherwise (unregistered code
\* >= 400, or a profile added with an empty error type), after any sequence
\* of registry extensions.  The envelope written to the body agrees.
C14_ErrorTypeNeverEmpty ==
    (Dispatched /\ ~ resp.Error.isNil) =>
        LET c == Validated(args.statusCode)
            expected ==
                IF c \in DOMAIN statusConfigMap
                   /\ statusConfigMap[c].ErrorType # ""
                THEN statusConfigMap[c].ErrorType
                ELSE "unknown_error"
        IN  /\ resp.Error.Type # ""
            /\ resp.Error.Type = expected
            /\ \A i \in 1..Len(w.body) : w.body[i]["error"]["type"] = expected

C14_Witness ==
    /\ Dispatched
    /\ args.statusCode = 418
    /\ 418 \in DOMAIN statusConfigMap
    /\ statusConfigMap[418].ErrorType = ""
    /\ ~ resp.Error.isNil
    /\ resp.Error.Type = "unknown_error"
    /\ Len(w.body) = 1

(***************************************************************************)
(* Properties of getMessageForStatus (checked under SpecMessage).          *)
(***************************************************************************)
MessageResolved == op = "getMessageForStatus"

\* The case the fallback is for: no provided message, code not in the
\* registry at the time of the call.
FallbackCase ==
    /\ MessageResolved
    /\ args.providedMessage = ""
    /\ args.statusCode \notin DOMAIN statusConfigMap

\* C15 as stated: for an unregistered code and an empty provided message
\* the result is the fallback of the hundreds-digit class, and "Response
\* completed" for every code outside 200..599 (600 and above included).
C15_FallbackByHundredsClass ==
    FallbackCase =>
        LET c == args.statusCode
        IN  /\ (c >= 200 /\ c <= 299) => ret = "Request completed successfully"
            /\ (c >= 300 /\ c <= 399) => ret = "Request requires further action"
            /\ (c >= 400 /\ c <= 499) => ret = "Client error occurred"
            /\ (c >= 500 /\ c <= 599) => ret = "Server error occurred"
            /\ (c < 200 \/ c >= 600) => ret = "Response completed"

\* C15, amended: the server fallback has no upper end, so it also covers
\* codes of 600 and above; "Response completed" is for codes below 200.
C15_FallbackServerClassOpen ==
    FallbackCase =>
        LET c == args.statusCode
        IN  /\ (c >= 200 /\ c <= 299) => ret = "Request completed successfully"
            /\ (c >= 300 /\ c <= 399) => ret = "Request requires further action"
            /\ (c >= 400 /\ c <= 499) => ret = "Client error occurred"
            /\ c >= 500 => ret = "Server error occurred"
            /\ c < 200 => ret = "Response completed"

C15_Witness ==
    /\ FallbackCase
    /\ args.statusCode = 700
    /\ ret = "Server error occurred"

\* The body was written: the dispatch went on to log the response.
ResponseSent == Dispatched /\ Len(w.body) = 1

\* C16: the level of the response log record is the registered profile's
\* level whenever the validated code is registered (whatever its class),
\* and otherwise error for codes >= 500, warn for 400..499 and info for
\* codes below 400.
C16_ResponseLogLevel ==
    ResponseSent =>
        LET c == Validated(args.statusCode)
        IN  ResponseRecord.level =
                IF c \in DOMAIN statusConfigMap THEN statusConfigMap[c].LogLevel
                ELSE IF c >= 500 THEN LevelError
                ELSE IF c >= 400 THEN LevelWarn
                ELSE LevelInfo

C16_Witness ==
    /\ ResponseSent
    /\ args.statusCode = 200
    /\ statusConfigMap[200].LogLevel = LevelError
    /\ ResponseRecord.level = LevelError
    /\ ResponseRecord.msg = MsgSent

\* Encoding the envelope to the writer fails: the data cannot be
\* serialized, or the writer's Write returns an error.
EncodeFails == Dispatched /\ (args.data = ChanData \/ args.w.writeErr)

ResponseMessages == {MsgSent, MsgServerError, MsgClientError}

BaseLogKeys ==
    {"statusCode", "status", "message", "method", "path", "user_agent",
     "remote_ip"}

\* What the dispatcher that ran logs as the snapshot of a nil request.
NilSnapshot ==
    IF op = "JSONResponse" THEN UnknownRequestInfo ELSE ZeroRequestInfo

\* C17: when serializing the envelope fails, dispatch logs one error record
\* with the accumulated attributes (status code, status, message, method,
\* path, user_agent, remote_ip, and error_type / error_details when there is
\* an error object) plus the serialization error, logs no response record,
\* writes nothing further and does not retry; the status line and the
\* headers have already been written.
C17_EncodeFailureLoggedOnce ==
    EncodeFails =>
        LET attrs == ResponseRecord.attrs
        IN  /\ ResponseRecord.level = LevelError
            /\ ResponseRecord.msg = MsgEncodeFailed
            /\ Cardinality({i \in 1..Len(logs) : logs[i].msg = MsgEncodeFailed}) = 1
            /\ \A i \in 1..Len(logs) : logs[i].msg \notin ResponseMessages
            /\ DOMAIN attrs =
                  BaseLogKeys \cup {"encoding_error"}
                  \cup (IF resp.Error.isNil THEN {}
                        ELSE {"error_type", "error_details"})
            /\ attrs["statusCode"] = Validated(args.statusCode)
            /\ attrs["status"] = resp.Status
            /\ attrs["message"] = resp.Message
            /\ attrs["method"] = (IF args.r.isNil THEN NilSnapshot.Method ELSE args.r.Method)
            /\ attrs["path"] = (IF args.r.isNil THEN NilSnapshot.Path ELSE args.r.URL.Path)
            /\ attrs["user_agent"] = (IF args.r.isNil THEN NilSnapshot.UserAgent ELSE "TestAgent")
            /\ attrs["remote_ip"] = (IF args.r.isNil THEN NilSnapshot.RemoteIP ELSE IP9999)
            /\ (~ resp.Error.isNil) =>
                  /\ attrs["error_type"] = resp.Error.Type
                  /\ attrs["error_details"] = args.details
            /\ w.body = << >>
            /\ w.status = << Validated(args.statusCode) >>
            /\ DOMAIN w.header = SecurityHeaders
            /\ Cardinality(EventIndexes("body", "Write")) <= 1
            /\ AllBefore(EventIndexes("status", "WriteHeader"),
                         EventIndexes("log", MsgEncodeFailed))
            /\ AllBefore(EventIndexes("body", "Write"),
                         EventIndexes("log", MsgEncodeFailed))
            /\ events[Len(events)] = Ev("log", MsgEncodeFailed)

C17_Witness ==
    /\ EncodeFails
    /\ args.data = ChanData
    /\ args.statusCode = 400
    /\ args.details = FieldDetails
    /\ ~ args.r.isNil
    /\ ResponseRecord.msg = MsgEncodeFailed
    /\ ResponseRecord.attrs["error_type"] = "validation_error"
    /\ "encoding_error" \in DOMAIN ResponseRecord.attrs
    /\ w.status = << 400 >>
    /\ w.body = << >>

(***************************************************************************)
(* Properties of the registry and of the configuration.                    *)
(***************************************************************************)
Registered == op = "AddStatusConfig"

\* C18: registering profile p for code c makes the lookup of c return
\* (p, true) and leaves the lookup of every other code as it was; when c was
\* registered the old profile is overwritten and one warning naming c is
\* logged, and when c was not registered no warning is logged.
C18_RegisterOverwritesAndWarns ==
    [][ Registered' =>
          LET c == args'.statusCode
              others == (DOMAIN statusConfigMap \cup DOMAIN statusConfigMap'
                         \cup StatusCodes \cup AddCodes) \ {c}
          IN  /\ GetStatusConfig(statusConfigMap', c)
                    = [cfg |-> args'.config, exists |-> TRUE]
              /\ \A d \in others :
                    GetStatusConfig(statusConfigMap', d)
                        = GetStatusConfig(statusConfigMap, d)
              /\ IF c \in DOMAIN statusConfigMap
                 THEN /\ Len(logs') = 1
                      /\ logs'[1].level = LevelWarn
                      /\ logs'[1].msg = MsgStatusExists
                      /\ logs'[1].attrs["statusCode"] = c
                 ELSE logs' = << >>
      ]_vars

C18_Witness ==
    /\ Registered
    /\ args.statusCode = 200
    /\ args.config = StatusConfig(LevelError, "Custom default", "custom_error")
    /\ GetStatusConfig(statusConfigMap, 200).cfg.DefaultMessage = "Custom default"
    /\ GetStatusConfig(statusConfigMap, 201).cfg.DefaultMessage
          = "Resource created successfully"
    /\ Len(logs) = 1
    /\ logs[1].msg = MsgStatusExists

Configured == op = "SetConfig"

\* C19: SetConfig replaces the package logger only when the supplied Logger
\* is non-nil and leaves it unchanged when it is nil, and no other operation
\* changes it; so the logger is never nil and is the last non-nil logger
\* supplied (the default if there was none), and every record a dispatch
\* logs goes to that logger.
C19_LoggerOnlyReplacedByNonNil ==
    /\ [](logger # NilLogger)
    /\ [][ /\ Configured' =>
                logger' = IF args'.Logger # NilLogger THEN args'.Logger
                          ELSE logger
           /\ ~ Configured' => logger' = logger
           /\ Dispatched' =>
                /\ logs' # << >>
                /\ \A i \in 1..Len(logs') : logs'[i].logger = logger
       ]_vars

C19_Witness ==
    /\ Dispatched
    /\ logger = "other"
    /\ args.r.isNil
    /\ args.statusCode = 0
    /\ Len(logs) = 3
    /\ \A i \in 1..Len(logs) : logs[i].logger = "other"

LookedUp == op = "GetStatusConfig"

CommonCodes ==
    {200, 201, 202, 204} \cup {400, 401, 403, 404, 405, 409, 422, 429}
    \cup {500, 501, 502, 503, 504, 505, 506}

\* C20: in the initial registry the lookup finds a profile for each of 200,
\* 201, 202, 204, 400, 401, 403, 404, 405, 409, 422, 429 and 500..506; each
\* has a non-empty default message, each 4xx/5xx profile a non-empty error
\* type and each 2xx profile an empty one; any other code is not found.
C20_InitialRegistry ==
    LookedUp =>
        LET c == args.statusCode
        IN  /\ ret.exists <=> c \in CommonCodes
            /\ ret.exists =>
                  /\ ret.cfg.DefaultMessage # ""
                  /\ (c >= 400 /\ c <= 599) => ret.cfg.ErrorType # ""
                  /\ (c >= 200 /\ c <= 299) => ret.cfg.ErrorType = ""
            /\ ~ ret.exists => ret.cfg = StatusConfig(0, "", "")

C20_Witness ==
    /\ LookedUp
    /\ args.statusCode = 506
    /\ ret.exists
    /\ ret.cfg.ErrorType = "variant_also_negotiates"
    /\ ret.cfg.LogLevel = LevelError

(***************************************************************************)
(* Properties of the envelope as written.                                  *)
(***************************************************************************)
RequiredKeys == {"status", "statusCode", "message"}

\* What decoding gives back for a Response: a details map with no entry is
\* not written, so it comes back nil.
RoundTripped(rsp) ==
    IF rsp.Error.isNil \/ rsp.Error.Details.kv # {}
    THEN rsp
    ELSE [rsp EXCEPT !.Error.Details = NilDetails]

\* C21: fields without a value are left out, not written as null: with nil
\* data and no error object the written object has neither a data key nor
\* an error key, also after decoding; the error key is there exactly when
\* an error object was built, and inside it the details key is left out
\* when details is nil or empty.
C21_AbsentFieldsOmitted ==
    ResponseSent =>
        LET obj == w.body[1]
        IN  /\ RequiredKeys \subseteq DOMAIN obj
            /\ DOMAIN obj \subseteq RequiredKeys \cup {"data", "error"}
            /\ ("data" \in DOMAIN obj) <=> ~ args.data.isNil
            /\ ("error" \in DOMAIN obj) <=> Validated(args.statusCode) >= 400
            /\ ("error" \in DOMAIN obj) =>
                  /\ "type" \in DOMAIN obj["error"]
                  /\ ("details" \in DOMAIN obj["error"])
                        <=> args.details = FieldDetails
            /\ decodeResponse(obj) = RoundTripped(resp)
            /\ (args.data.isNil /\ Validated(args.statusCode) < 400) =>
                  /\ DOMAIN obj = RequiredKeys
                  /\ decodeResponse(obj).Data = NilData
                  /\ decodeResponse(obj).Error = NilErrorInfo

C21_Witness ==
    /\ ResponseSent
    /\ args.statusCode = 200
    /\ args.data = NilData
    /\ args.details = FieldDetails
    /\ DOMAIN w.body[1] = RequiredKeys

(***************************************************************************)
(* Properties of concurrent dispatch (checked under SpecConcurrent).       *)
(***************************************************************************)
\* What worker p's call produces when it runs alone.
\* The call of worker p run alone; its records, the "HTTP response" record
\* of JSONResponse at level l.
Alone(p) ==
    IF call[p].fn = "JSONResponse"
    THEN JSONResponse(statusConfigMap, logger, call[p].w, call[p].r,
                      call[p].statusCode, call[p].message, call[p].data,
                      call[p].details)
    ELSE HTTPResponse(statusConfigMap, logger, call[p].w, call[p].r,
                      call[p].statusCode, call[p].message, call[p].data,
                      call[p].details)

AloneLogs(p, l) ==
    IF call[p].fn = "JSONResponse" THEN Alone(p).logs[l] ELSE Alone(p).logs

Range(s) == {s[i] : i \in 1..Len(s)}

\* C22: with the registry and the logger fixed during traffic, concurrent
\* dispatch calls are independent: in every interleaving a call that has
\* returned has written the status line, the headers and the body, and
\* built the envelope, that it produces when run alone, whatever the other
\* calls are and however far they have got.
C22_ConcurrentCallsIndependent ==
    \A p \in Workers :
        op[p] = "done" =>
            /\ w[p] = Alone(p).w
            /\ resp[p] = Alone(p).resp
            /\ \E l \in Levels : Range(AloneLogs(p, l)) \subseteq Range(logs)

C22_Witness ==
    /\ \A p \in Workers : op[p] = "done"
    /\ call[1].statusCode = 200
    /\ call[2].statusCode = 600
    /\ Len(logs) = 4
    /\ logs[1].msg = MsgInvalidCode
    /\ logs[2].msg = MsgSent
    /\ logs[3].msg = MsgNilRequest
    /\ logs[4].msg = MsgServerError
    /\ w[1].status = << 200 >>
    /\ w[2].status = << 500 >>

(***************************************************************************)
(* More properties of the dispatcher (checked under Spec).                 *)
(***************************************************************************)
\* The two warnings that are about the call's arguments, not the response.
ArgumentWarnings == {MsgInvalidCode, MsgNilRequest}

ResponseRecordIndexes ==
    {i \in 1..Len(logs) : logs[i].msg \notin ArgumentWarnings}

\* C23: a dispatch whose body write succeeds logs exactly one record about
\* the response, the invalid-code and nil-request warnings apart; that
\* record is logged after the body has been written and is the response
\* record of the code's class.
C23_OneResponseRecordAfterBody ==
    ResponseSent =>
        /\ ResponseRecordIndexes = {Len(logs)}
        /\ ResponseRecord.msg =
              (IF Validated(args.statusCode) >= 500 THEN MsgServerError
               ELSE IF Validated(args.statusCode) >= 400 THEN MsgClientError
               ELSE MsgSent)
        /\ Cardinality(EventIndexes("body", "Write")) = 1
        /\ \A i \in 1..Len(events) :
              (events[i].kind = "log" /\ events[i].what \notin ArgumentWarnings)
                  => /\ i = Len(events)
                     /\ \A j \in EventIndexes("body", "Write") : j < i

\* C24: dispatch carries the data through as given on every path: with a
\* code >= 400 and non-nil data the envelope has both the data and the
\* error object, and on a success path it has the data and no error object.
C24_DataCarriedOnEveryPath ==
    Dispatched =>
        /\ resp.Data = args.data
        /\ ResponseSent =>
              LET obj == w.body[1]
              IN  /\ (~ args.data.isNil) =>
                        /\ "data" \in DOMAIN obj
                        /\ obj["data"] = args.data.kind
                  /\ (Validated(args.statusCode) >= 400) =>
                        /\ ~ resp.Error.isNil
                        /\ "error" \in DOMAIN obj
                  /\ (Validated(args.statusCode) < 400) =>
                        /\ resp.Error.isNil
                        /\ "error" \notin DOMAIN obj

C24_Witness ==
    /\ ResponseSent
    /\ args.statusCode = 400
    /\ args.data = MapData
    /\ resp.Data = MapData
    /\ resp.Error.Type = "validation_error"
    /\ {"data", "error"} \subseteq DOMAIN w.body[1]

(***************************************************************************)
(* Properties of extractRequestInfo (checked under SpecExtract).           *)
(***************************************************************************)
Extracted == op = "extractRequestInfo"

\* C25: extract is a pure function of the request: it returns the method,
\* the URL path without the query string, the first User-Agent value ("" when
\* the header is absent) and the resolver's result; it logs nothing and
\* changes neither the request, the registry nor the logger.
C25_ExtractPure ==
    /\ [](Extracted =>
            /\ ret.Method = args.r.Method
            /\ ret.Path = args.r.URL.Path
            /\ ret.Path \in {"/info", "/test"}
            /\ ret.UserAgent =
                  (IF args.r.UserAgentHeader = << >> THEN ""
                   ELSE args.r.UserAgentHeader[1])
            /\ ret.RemoteIP = getClientIP(args.r)
            /\ logs = << >>
            /\ events = << >>)
    /\ [][ Extracted' =>
              /\ args'.r = call.r
              /\ statusConfigMap' = statusConfigMap
              /\ logger' = logger
              /\ <<w, resp>>' = <<w, resp>>
       ]_vars

C25_Witness ==
    /\ Extracted
    /\ 418 \in DOMAIN statusConfigMap
    /\ args.r.Method = "PUT"
    /\ args.r.URL = [Path |-> "/test", RawQuery |-> "q=1"]
    /\ args.r.UserAgentHeader = << >>
    /\ args.r.RemoteAddr = AddrIPv6Port
    /\ args.r.XForwardedFor = << >>
    /\ ret = [Method |-> "PUT", Path |-> "/test", UserAgent |-> "",
              RemoteIP |-> IPv6Loopback]

(***************************************************************************)
(* The levels of the built-in profiles (checked under SpecLookup).         *)
(***************************************************************************)
ClassLevel(c) ==
    IF c >= 500 THEN LevelError ELSE IF c >= 400 THEN LevelWarn ELSE LevelInfo

\* C26 as stated: every built-in 2xx profile has level info, every built-in
\* 4xx profile warn and every built-in 5xx profile error, so a dispatch of
\* any built-in 4xx code logs its response record at warn.
C26_BuiltinLevelsByClass ==
    /\ (LookedUp /\ ret.exists) => ret.cfg.LogLevel = ClassLevel(args.statusCode)
    /\ (Dispatched /\ args.statusCode \in CommonCodes) =>
          ResponseRecord.level = ClassLevel(args.statusCode)

\* C26, amended: as above except for 404, whose built-in profile has level
\* info, so a dispatch of 404 logs its response record at info.
C26_BuiltinLevelsNotFoundInfo ==
    LET level(c) == IF c = 404 THEN LevelInfo ELSE ClassLevel(c)
    IN  /\ (LookedUp /\ ret.exists) => ret.cfg.LogLevel = level(args.statusCode)
        /\ (Dispatched /\ args.statusCode \in CommonCodes) =>
              /\ ResponseRecord.level = level(args.statusCode)
              /\ ResponseSent

C26_Witness ==
    /\ Dispatched
    /\ args.statusCode = 404
    /\ ResponseRecord.level = LevelInfo
    /\ ResponseRecord.msg = MsgClientError
    /\ ResponseRecord.attrs["error_type"] = "not_found"

\* The steps of one dispatch that can be observed, in the order claimed.
ExpectedEvents ==
    << Ev("call", "validateStatusCode") >>
    \o (IF InRange(args.statusCode) THEN << >> ELSE << Ev("log", MsgInvalidCode) >>)
    \o (IF args.r.isNil THEN << Ev("log", MsgNilRequest) >>
        ELSE << Ev("call", "extractRequestInfo") >>)
    \o << Ev("call", "getMessageForStatus"),
          Ev("header", "Content-Type"),
          Ev("header", "X-Content-Type-Options"),
          Ev("header", "Cache-Control"),
          Ev("status", "WriteHeader") >>
    \o (IF args.data = ChanData THEN << >> ELSE << Ev("body", "Write") >>)
    \o << Ev("log", IF args.data = ChanData \/ args.w.writeErr
                    THEN MsgEncodeFailed
                    ELSE IF Validated(args.statusCode) >= 500 THEN MsgServerError
                    ELSE IF Validated(args.statusCode) >= 400 THEN MsgClientError
                    ELSE MsgSent) >>

\* C27: within one dispatch the steps occur in this order: the invalid-code
\* warning (if any), the nil-request warning (if any), the headers, the
\* status line, the body, the response log record; the message is resolved
\* against the validated code.  So the invalid-code warning precedes the
\* nil-request warning and both precede every write to the response.
C27_StepsInOrder ==
    Dispatched =>
        /\ events = ExpectedEvents
        /\ AllBefore(EventIndexes("log", MsgInvalidCode),
                     EventIndexes("log", MsgNilRequest))
        /\ \A i \in 1..Len(events) :
              events[i].kind \in {"header", "status", "body"} =>
                  \A j \in EventIndexes("log", MsgInvalidCode)
                           \cup EventIndexes("log", MsgNilRequest) : j < i
        /\ (args.message = "" /\ ~ InRange(args.statusCode)) =>
              resp.Message = statusConfigMap[500].DefaultMessage
        /\ (args.message = "" /\ InRange(args.statusCode)
            /\ args.statusCode \in DOMAIN statusConfigMap) =>
              resp.Message = statusConfigMap[args.statusCode].DefaultMessage

(***************************************************************************)
(* Properties of registry mutation during traffic (checked under SpecRace).*)
(***************************************************************************)
\* What worker p's call produces alone on registry m.
AloneOn(m, p) ==
    IF call[p].fn = "JSONResponse"
    THEN JSONResponse(m, logger, call[p].w, call[p].r, call[p].statusCode,
                      call[p].message, call[p].data, call[p].details)
    ELSE HTTPResponse(m, logger, call[p].w, call[p].r, call[p].statusCode,
                      call[p].message, call[p].data, call[p].details)

OldRegistry == InitialStatusConfigMap
NewRegistry ==
    AddStatusConfigMap(InitialStatusConfigMap, args[Registrar].statusCode,
                       args[Registrar].config)

\* p's response is the one of a call that saw registry m throughout.
Unmixed(m, p) ==
    /\ resp[p] = AloneOn(m, p).resp
    /\ w[p] = AloneOn(m, p).w
    /\ (call[p].fn = "HTTPResponse" \/ w[p].body # << >>)
          => args[p].logLevel = ResponseLogLevel(m, resp[p].StatusCode)

\* C28: AddStatusConfig takes no lock and dispatch reads the registry in
\* separate steps, the default message and then the profile that gives the
\* error type and the level (JSONResponse reads the level in a third step,
\* and only when the body was written).  A dispatch that returned before the write began
\* shows the old registry throughout, and one that begins after the write
\* completed (AddStatusConfig done before the dispatch begins) shows the
\* new registry throughout: no mixed response.  The mixed response of an
\* interleaved overwrite is the state C28_Witness.
C28_NoMixedResponseUnlessInterleaved ==
    \A p \in RaceWorkers :
        op[p] = "done" =>
            /\ (op[Registrar] \in {"check", "warn"} \/ p \in ret.finishedBefore)
                  => Unmixed(OldRegistry, p)
            /\ (op[Registrar] = "done" /\ p \in ret.startedAfter)
                  => /\ statusConfigMap = NewRegistry
                     /\ Unmixed(NewRegistry, p)

\* An overwrite of 400 interleaved with a dispatch of 400: the old default
\* message with the new error type and level.
C28_Witness ==
    /\ op[1] = "done"
    /\ op[Registrar] = "done"
    /\ call[1].statusCode = 400
    /\ args[Registrar].statusCode = 400
    /\ resp[1].Message = "The request contains invalid data"
    /\ resp[1].Error.Type = "invalid_request"
    /\ args[1].logLevel = LevelError
    /\ w[1].body[1]["message"] = "The request contains invalid data"
    /\ w[1].body[1]["error"]["type"] = "invalid_request"
    /\ ~ Unmixed(OldRegistry, 1)
    /\ ~ Unmixed(NewRegistry, 1)

(***************************************************************************)
(* Shared state across operations (checked under SpecConfig).              *)
(***************************************************************************)
\* C29: a dispatch never changes shared state: across every dispatch step
\* (valid or invalid code, nil or non-nil request, serialization succeeding
\* or failing) the registry and the logger stay what they were; only
\* AddStatusConfig changes the registry and only SetConfig the logger.
C29_DispatchLeavesSharedState ==
    [][ /\ Dispatched' =>
              /\ statusConfigMap' = statusConfigMap
              /\ logger' = logger
        /\ statusConfigMap' # statusConfigMap => Registered'
        /\ logger' # logger => Configured'
      ]_vars

C29_Witness ==
    /\ Dispatched
    /\ args.statusCode = 0
    /\ args.r.isNil
    /\ args.data = ChanData
    /\ logger = "custom"
    /\ 418 \in DOMAIN statusConfigMap
    /\ statusConfigMap[200].DefaultMessage = "Custom default"
    /\ ResponseRecord.msg = MsgEncodeFailed

(***************************************************************************)
(* Out-of-range profiles (checked under SpecOutOfRange).                   *)
(***************************************************************************)
\* The same call with code 500.
SameCallWith500 ==
    HTTPResponse(statusConfigMap, logger, args.w, args.r, 500, args.message,
                 args.data, args.details)

\* C30: a profile registered for a code outside [100,599] never influences
\* a dispatched response: a dispatch with an out-of-range code uses the
\* profile registered for 500 at that time (default message, error type,
\* level), and its status line, headers and envelope are those of a
\* dispatch with 500 and the same other arguments.
C30_OutOfRangeProfileUnused ==
    (Dispatched /\ ~ InRange(args.statusCode)) =>
        /\ w = SameCallWith500.w
        /\ resp = SameCallWith500.resp
        /\ w.status = << 500 >>
        /\ resp.StatusCode = 500
        /\ args.message = "" => resp.Message = statusConfigMap[500].DefaultMessage
        /\ resp.Error.Type =
              (IF statusConfigMap[500].ErrorType # ""
               THEN statusConfigMap[500].ErrorType ELSE "unknown_error")
        /\ ResponseRecord.level = statusConfigMap[500].LogLevel

C30_Witness ==
    /\ Dispatched
    /\ args.statusCode = 600
    /\ args.message = ""
    /\ 600 \in DOMAIN statusConfigMap
    /\ statusConfigMap[600] = StatusConfig(LevelInfo, "", "")
    /\ statusConfigMap[500] = StatusConfig(LevelError, "Custom default", "custom_error")
    /\ resp.Message = "Custom default"
    /\ resp.Error.Type = "custom_error"
    /\ ResponseRecord.level = LevelError
    /\ w.body[1]["statusCode"] = 500

====
